---- MODULE Spec2Model ----
(***************************************************************************)
(* A model of the Azure Diagram MCP server's two stateful cores:           *)
(*   - generate_diagram (diagram_tools.py) with the security scan it runs  *)
(*     first (scanner.py): the scan gate, the SIGALRM / worker-thread      *)
(*     timeout, the output file check;                                     *)
(*   - the graph edit engine (server.py): _apply_graph_edit_intent and the *)
(*     helpers it calls.                                                   *)
(***************************************************************************)
EXTENDS Integers, Sequences, FiniteSets, TLC

\* ------------------------------------------------------------------ bounds
\* Number of generate_diagram calls made one after the other.
MaxCalls == 2
\* Largest graph the host keeps editing: edges and resources of a graph model.
MaxEdges == 2
MaxResources == 2

VARIABLES
    pc,        \* where the main thread stands inside generate_diagram
    inp,       \* the arguments of the current call
    loc,       \* the locals of the current call
    res,       \* what the current call gave back to its caller
    handler,   \* the process-wide SIGALRM handler
    alarm,     \* TRUE while an alarm is pending
    files,     \* the output files that exist
    foreign,   \* the output files written by another call than the current one
    tmpFiles,  \* how many scanner temp files exist on disk
    worker,    \* the worker thread of the current call (Windows path)
    orphans,   \* worker threads abandoned by timed-out calls, still running
    ncalls,    \* calls started so far
    spin,      \* toggles while a script busy-loops
    platform,  \* platform.system() of the process
    graphModel,    \* the graph model the host holds and sends with an edit
    editResponse,  \* status of the last mcp_apply_edit response
    lastTool,      \* the graph tool that produced the graph model the host holds
    trial          \* a graph tool's answers on the graph model, kept for comparison

genVars == <<pc, inp, loc, res, handler, alarm, files, foreign, tmpFiles, worker, orphans,
             ncalls, spin, platform>>

graphVars == <<graphModel, editResponse, lastTool, trial>>

vars == <<genVars, graphVars>>

\* ------------------------------------------------------ program constants
\* DiagramGenerateRequest.timeout: Field(ge=1, le=300)
TimeoutMin == 1
TimeoutMax == 300

\* ------------------------------------------------------------ input domains
png == <<"p", "n", "g">>
svg == <<"s", "v", "g">>

\* Values of output_format a caller may pass, as character sequences.
OutputFormats ==
    { <<>>, <<" ", "S", "V", "G">>, <<"g", "i", "f">> }

\* Values of filename: omitted, or "a.png" (token sequences, extension last).
Filenames == { <<>>, <<"a", ".png">> }

\* uuid.uuid4().hex[:8]: the values drawn by different calls are taken to be
\* distinct, so the n-th call draws the n-th value.
RandomHex == <<"h1", "h2", "h3", "h4">>

\* Values of timeout; generate_diagram takes any int.
Timeouts == { 0, 1, 301 }

Platforms == { "Linux", "Windows" }

\* What the scanner sees in the code.
ScanKinds == { "clean", "syntax", "import", "danger", "bandit" }

\* How the code behaves when executed: whether it renders its diagram to the
\* filename/outformat that _ensure_show_false wrote into its Diagram() call,
\* and how it ends.
\*   ok        falls off the end
\*   exc       raises an Exception
\*   texc      raises TimeoutError() with an empty message
\*   sysexit   raises SystemExit (a BaseException)
\*   loop      loops forever
\*   loopcatch loops forever inside try/except Exception
Ends == { "ok", "exc", "texc", "sysexit", "loop", "loopcatch" }

Scripts ==
    [ scan : {"clean"}, writes : {TRUE}, end : Ends \ {"exc", "loopcatch"} ]
    \cup [ scan : {"clean"}, writes : {FALSE}, end : {"ok", "exc", "loop", "loopcatch"} ]
    \cup [ scan : ScanKinds \ {"clean"}, writes : {TRUE}, end : {"ok"} ]

NoPath == [ name |-> <<>>, fmt |-> <<>> ]

NoWorker == [ state |-> "none" ]

\* ------------------------------------------------------- pure functions

Lower(c) ==
    CASE c = "P" -> "p" [] c = "N" -> "n" [] c = "G" -> "g"
      [] c = "S" -> "s" [] c = "V" -> "v"
      [] c = "REMOVE_RESOURCE" -> "remove_resource"
      [] c = "RESOURCE" -> "resource" [] OTHER -> c

LowerStr(s) == [ i \in 1..Len(s) |-> Lower(s[i]) ]

RECURSIVE LStrip(_)
LStrip(s) == IF s # <<>> /\ Head(s) = " " THEN LStrip(Tail(s)) ELSE s

RECURSIVE RStrip(_)
RStrip(s) ==
    IF s # <<>> /\ s[Len(s)] = " " THEN RStrip(SubSeq(s, 1, Len(s) - 1)) ELSE s

Strip(s) == RStrip(LStrip(s))

\* A faulty variant that lets every format through.
MutNormalizeAcceptAll(output_format) ==
    LET fmt == Strip(LowerStr(IF output_format = <<>> THEN png ELSE output_format))
    IN  [ ok |-> TRUE, fmt |-> fmt ]

\* _normalize_output_format: (output_format or 'png').lower().strip(), accepted
\* when it is png or svg, ValueError otherwise.
_normalize_output_format(output_format) ==
    LET fmt == Strip(LowerStr(IF output_format = <<>> THEN png ELSE output_format))
    IN  IF fmt \in {png, svg} THEN [ ok |-> TRUE, fmt |-> fmt ]
        ELSE [ ok |-> FALSE, fmt |-> fmt ]

\* The loop that removes one known image extension from filename.
StripKnownExt(filename) ==
    IF filename # <<>> /\ filename[Len(filename)] \in {".png", ".svg"}
    THEN SubSeq(filename, 1, Len(filename) - 1)
    ELSE filename

\* validate_syntax: (is_valid, error_message)
\* A faulty variant: every code passes validation.
MutSyntaxAlwaysValid(code) == [ valid |-> TRUE, error |-> "none" ]

\* count_code_metrics: line counts, a function of the code alone; the model
\* keeps which code was counted.
NoMetrics == [ of |-> "none" ]

count_code_metrics(code) == [ of |-> code.scan ]

validate_syntax(code) ==
    IF code.scan = "syntax" THEN [ valid |-> FALSE, error |-> "syntax" ]
    ELSE IF code.scan = "import" THEN [ valid |-> FALSE, error |-> "import" ]
    ELSE [ valid |-> TRUE, error |-> "none" ]

\* check_dangerous_functions: the findings for the code.
check_dangerous_functions(code) ==
    IF code.scan = "danger" THEN { [ function |-> "exec", line |-> 1 ] } ELSE {}

\* The SecurityIssue that check_security appends for a finding.
DangerousIssue(item) ==
    [ severity |-> "HIGH", confidence |-> "HIGH", line |-> item.line,
      issue_text |-> item.function, issue_type |-> "dangerous_function" ]

\* A faulty variant: a failure of the linter ends the try block.
MutBanditFailureAborts(banditOk) == IF banditOk THEN "cs_danger" ELSE "cs_finally"

\* except Exception: pass - whether bandit ran or raised, check_security goes
\* on with the dangerous-function pass.
AfterBandit(banditOk) == "cs_danger"

\* The issues bandit reports when it runs.
BanditIssues(code) ==
    IF code.scan = "bandit"
    THEN { [ severity |-> "MEDIUM", confidence |-> "HIGH", line |-> 1,
             issue_text |-> "bandit", issue_type |-> "B101" ] }
    ELSE {}

\* signal.alarm(timeout): the int goes to alarm(unsigned); within the C int
\* range only 0 converts to 0, which arms nothing (it cancels).
ArmsAlarm(timeout) == timeout # 0

\* `if exec_error:` - None and the empty string are falsy.
Truthy(execError) == execError \notin { "none", "empty" }

\* ----------------------------------------------------------------- state

Loc0 ==
    [ syntaxValid |-> FALSE, hasErrors |-> FALSE, issues |-> {}, scanError |-> "none",
      tmpPath |-> FALSE, fmt |-> <<>>, outPath |-> <<>>, oldHandler |-> "orig",
      execError |-> "none", wrote |-> FALSE, dirMade |-> FALSE, nsBuilt |-> FALSE,
      executed |-> FALSE, propagating |-> "none", metrics |-> NoMetrics,
      banditFailed |-> FALSE ]

Res0 == [ outcome |-> "none", status |-> "none", path |-> NoPath, msg |-> "none" ]

Inp0 ==
    [ code |-> [ scan |-> "clean", writes |-> TRUE, end |-> "ok" ], filename |-> <<>>,
      timeout |-> 1, output_format |-> png ]

GenInit ==
    /\ pc = "idle"
    /\ inp = Inp0
    /\ loc = Loc0
    /\ res = Res0
    /\ handler = "orig"
    /\ alarm = FALSE
    /\ files = {}
    /\ foreign = {}
    /\ tmpFiles = 0
    /\ worker = NoWorker
    /\ orphans = {}
    /\ ncalls = 0
    /\ spin = 0
    /\ platform \in Platforms

Return(status, path, msg) ==
    /\ pc' = "done"
    /\ res' = [ outcome |-> "returned", status |-> status, path |-> path, msg |-> msg ]

Raise(exc) ==
    /\ pc' = "done"
    /\ res' = [ outcome |-> "raised", status |-> "none", path |-> NoPath, msg |-> exc ]

\* ------------------------------------------------- generate_diagram: scan

\* A caller invokes generate_diagram(code, filename, timeout, workspace_dir,
\* output_format); scan_python_code starts with count_code_metrics.
Start ==
    /\ pc = "idle"
    /\ ncalls < MaxCalls
    /\ \E code \in Scripts, fn \in Filenames, t \in Timeouts, of \in OutputFormats :
            inp' = [ code |-> code, filename |-> fn, timeout |-> t, output_format |-> of ]
    /\ ncalls' = ncalls + 1
    /\ pc' = "validate"
    /\ UNCHANGED <<loc, res, handler, alarm, files, foreign, tmpFiles, worker, orphans, spin,
                 platform>>
    /\ UNCHANGED graphVars

\* The caller has taken what the call gave back; the call's frame is gone, and
\* every file on disk is, for the next call, a file some other call wrote.
Forget ==
    /\ pc = "done"
    /\ pc' = "idle"
    /\ inp' = Inp0
    /\ loc' = Loc0
    /\ res' = Res0
    /\ worker' = NoWorker
    /\ foreign' = files
    /\ UNCHANGED <<handler, alarm, files, foreign, tmpFiles, orphans, ncalls, spin, platform>>
    /\ UNCHANGED graphVars

\* scan_python_code: count_code_metrics, validate_syntax, and the early return
\* when validation fails.
ValidateSyntax ==
    /\ pc = "validate"
    /\ LET v == validate_syntax(inp.code)
       IN  IF ~v.valid
           THEN /\ loc' = [ loc EXCEPT !.syntaxValid = FALSE, !.hasErrors = TRUE,
                                       !.issues = {}, !.scanError = v.error,
                                       !.metrics = count_code_metrics(inp.code) ]
                /\ pc' = "gate"
           ELSE /\ loc' = [ loc EXCEPT !.syntaxValid = TRUE,
                                       !.metrics = count_code_metrics(inp.code) ]
                /\ pc' = "cs_create"
    /\ UNCHANGED <<inp, res, handler, alarm, files, foreign, tmpFiles, worker, orphans,
                 ncalls, spin, platform>>
    /\ UNCHANGED graphVars

\* check_security: NamedTemporaryFile(delete=False) creates the file.
CsCreateTmp ==
    /\ pc = "cs_create"
    /\ tmpFiles' = tmpFiles + 1
    /\ loc' = [ loc EXCEPT !.tmpPath = FALSE ]
    /\ pc' = "cs_write"
    /\ UNCHANGED <<inp, res, handler, alarm, files, foreign, worker, orphans, ncalls, spin,
                 platform>>
    /\ UNCHANGED graphVars

\* tmp_file.write(code); tmp_path = tmp_file.name.  The write can fail (the
\* text is not encodable in the locale's encoding, the disk is full): the
\* exception leaves the with block before tmp_path is assigned, the finally
\* clause finds tmp_path None and unlinks nothing, and the exception goes up
\* through scan_python_code and generate_diagram.
CsWrite ==
    /\ pc = "cs_write"
    /\ \E writeOk \in BOOLEAN :
        IF writeOk
        THEN /\ loc' = [ loc EXCEPT !.tmpPath = TRUE ]
             /\ pc' = "cs_bandit"
             /\ UNCHANGED res
        ELSE /\ loc' = loc
             /\ Raise("OSError")
    /\ UNCHANGED <<inp, handler, alarm, files, foreign, tmpFiles, worker, orphans, ncalls,
                 spin, platform>>
    /\ UNCHANGED graphVars

\* The bandit pass inside try/except Exception: its issues are appended when
\* it runs, and nothing is when it raises; banditFailed tells, until
\* check_security returns, that the except clause was taken.
CsBandit ==
    /\ pc = "cs_bandit"
    /\ \E banditOk \in BOOLEAN :
        /\ loc' = [ loc EXCEPT !.issues =
                       IF banditOk THEN loc.issues \cup BanditIssues(inp.code)
                       ELSE loc.issues,
                                !.banditFailed = ~banditOk ]
        /\ pc' = AfterBandit(banditOk)
    /\ UNCHANGED <<inp, res, handler, alarm, files, foreign, tmpFiles, worker, orphans,
                 ncalls, spin, platform>>
    /\ UNCHANGED graphVars

\* check_dangerous_functions, each finding appended as an issue.
CsDangerous ==
    /\ pc = "cs_danger"
    /\ loc' = [ loc EXCEPT !.issues =
                    loc.issues \cup { DangerousIssue(item) :
                                        item \in check_dangerous_functions(inp.code) } ]
    /\ pc' = "cs_finally"
    /\ UNCHANGED <<inp, res, handler, alarm, files, foreign, tmpFiles, worker, orphans,
                 ncalls, spin, platform>>
    /\ UNCHANGED graphVars

\* finally: if tmp_path and os.path.exists(tmp_path): os.unlink(tmp_path);
\* then scan_python_code sets has_errors = len(security_issues) > 0.
CsFinally ==
    /\ pc = "cs_finally"
    /\ tmpFiles' = IF loc.tmpPath THEN tmpFiles - 1 ELSE tmpFiles
    /\ loc' = [ loc EXCEPT !.hasErrors = (loc.issues # {}), !.banditFailed = FALSE ]
    /\ pc' = "gate"
    /\ UNCHANGED <<inp, res, handler, alarm, files, foreign, worker, orphans, ncalls, spin,
                 platform>>
    /\ UNCHANGED graphVars

\* A faulty variant: a gate that lets every scan result through.
MutGateOpen(hasErrors) == FALSE

\* if scan_result.has_errors: return status='error', 'Security scan failed'.
ScanBlocks(hasErrors) == hasErrors

ScanGate ==
    /\ pc = "gate"
    /\ IF ScanBlocks(loc.hasErrors)
       THEN Return("error", NoPath, "security")
       ELSE pc' = "format" /\ UNCHANGED res
    /\ UNCHANGED <<inp, loc, handler, alarm, files, foreign, tmpFiles, worker, orphans,
                 ncalls, spin, platform>>
    /\ UNCHANGED graphVars

\* ------------------------------------- generate_diagram: format and path

\* try: _normalize_output_format(output_format) except ValueError: return error.
NormalizeFormat ==
    /\ pc = "format"
    /\ LET r == _normalize_output_format(inp.output_format)
       IN  IF r.ok
           THEN /\ loc' = [ loc EXCEPT !.fmt = r.fmt ]
                /\ pc' = "resolve"
                /\ UNCHANGED res
           ELSE /\ loc' = loc
                /\ Return("error", NoPath, "format")
    /\ UNCHANGED <<inp, handler, alarm, files, foreign, tmpFiles, worker, orphans, ncalls,
                 spin, platform>>
    /\ UNCHANGED graphVars

\* filename defaults to diagram_<8 hex digits>, loses a known extension and
\* becomes output_path under the output directory.
ResolvePath ==
    /\ pc = "resolve"
    /\ LET filename == IF inp.filename = <<>> THEN <<"diagram_", RandomHex[ncalls]>>
                        ELSE inp.filename
       IN  loc' = [ loc EXCEPT !.outPath = StripKnownExt(filename) ]
    /\ pc' = "prepare"
    /\ UNCHANGED <<inp, res, handler, alarm, files, foreign, tmpFiles, worker, orphans,
                 ncalls, spin, platform>>
    /\ UNCHANGED graphVars

\* os.makedirs(output_dir), _build_execution_namespace, _ensure_show_false,
\* then the platform test.
Prepare ==
    /\ pc = "prepare"
    /\ loc' = [ loc EXCEPT !.dirMade = TRUE, !.nsBuilt = TRUE ]
    /\ pc' = IF platform # "Windows" THEN "install" ELSE "spawn"
    /\ UNCHANGED <<inp, res, handler, alarm, files, foreign, tmpFiles, worker, orphans,
                 ncalls, spin, platform>>
    /\ UNCHANGED graphVars

\* The file the processed code renders and generate_diagram then looks for:
\* f'{output_path}.{normalized_output_format}'.
GeneratedPath == [ name |-> loc.outPath, fmt |-> loc.fmt ]

Loops(code) == code.end \in { "loop", "loopcatch" }

\* The script has done its rendering (or has none to do).
Rendered(code, wrote) == code.writes => wrote

\* --------------------------------------- generate_diagram: SIGALRM path

\* old_handler = signal.signal(signal.SIGALRM, _timeout_handler)
InstallHandler ==
    /\ pc = "install"
    /\ loc' = [ loc EXCEPT !.oldHandler = handler ]
    /\ handler' = "timeout"
    /\ pc' = "arm"
    /\ UNCHANGED <<inp, res, alarm, files, foreign, tmpFiles, worker, orphans, ncalls, spin,
                 platform>>
    /\ UNCHANGED graphVars

\* signal.alarm(timeout)
ArmAlarm ==
    /\ pc = "arm"
    /\ alarm' = ArmsAlarm(inp.timeout)
    /\ pc' = "try"
    /\ UNCHANGED <<inp, loc, res, handler, files, foreign, tmpFiles, worker, orphans, ncalls,
                 spin, platform>>
    /\ UNCHANGED graphVars

\* try: exec(processed_code, namespace)
ExecBegin ==
    /\ pc = "try"
    /\ loc' = [ loc EXCEPT !.executed = TRUE ]
    /\ pc' = "exec"
    /\ UNCHANGED <<inp, res, handler, alarm, files, foreign, tmpFiles, worker, orphans,
                 ncalls, spin, platform>>
    /\ UNCHANGED graphVars

\* The running script renders its diagram file.
ExecWrite ==
    /\ pc = "exec"
    /\ inp.code.writes /\ ~loc.wrote
    /\ files' = files \cup { GeneratedPath }
    /\ loc' = [ loc EXCEPT !.wrote = TRUE ]
    /\ UNCHANGED <<pc, inp, res, handler, alarm, tmpFiles, worker, orphans, ncalls, spin,
                 foreign, platform>>
    /\ UNCHANGED graphVars

\* What the except clauses of the SIGALRM path make of the way the script
\* ended: [execError, propagating].
\*   except TimeoutError as e: exec_error = str(e)
\*   except Exception as e:    exec_error = f'Diagram generation failed: {e}'
\* SystemExit is no Exception: it passes through finally and goes on up.
UnixCatch(end) ==
    CASE end = "ok"      -> [ execError |-> "none",   propagating |-> "none" ]
      [] end = "exc"     -> [ execError |-> "failed", propagating |-> "none" ]
      [] end = "texc"    -> [ execError |-> "empty",  propagating |-> "none" ]
      [] end = "sysexit" -> [ execError |-> "none",   propagating |-> "SystemExit" ]

\* The script ends: it returns or raises, and control reaches finally.
ExecEnd ==
    /\ pc = "exec"
    /\ Rendered(inp.code, loc.wrote)
    /\ ~Loops(inp.code)
    /\ LET c == UnixCatch(inp.code.end)
       IN  loc' = [ loc EXCEPT !.execError = c.execError, !.propagating = c.propagating ]
    /\ pc' = "disarm"
    /\ UNCHANGED <<inp, res, handler, alarm, files, foreign, tmpFiles, worker, orphans,
                 ncalls, spin, platform>>
    /\ UNCHANGED graphVars

\* One more turn of a script that loops forever.
ExecSpin ==
    /\ pc = "exec"
    /\ Rendered(inp.code, loc.wrote)
    /\ Loops(inp.code)
    /\ spin' = 1 - spin
    /\ UNCHANGED <<pc, inp, loc, res, handler, alarm, files, foreign, tmpFiles, worker,
                 orphans, ncalls, platform>>
    /\ UNCHANGED graphVars

\* The alarm goes off and _timeout_handler raises TimeoutError in the main
\* thread, wherever it stands:
\*  - inside exec: a script looping in try/except Exception catches it and
\*    loops on (the alarm is spent); otherwise except TimeoutError takes it;
\*  - after exec has returned and before signal.alarm(0) has cancelled it: the
\*    error is raised inside the finally clause, the handler is not restored
\*    and the error leaves generate_diagram.
AlarmFire ==
    /\ alarm
    /\ pc \in { "exec", "disarm" }
    /\ alarm' = FALSE
    /\ IF pc = "exec"
       THEN \E inTry \in BOOLEAN :
              IF inp.code.end = "loopcatch" /\ Rendered(inp.code, loc.wrote) /\ inTry
              THEN UNCHANGED <<pc, loc, res>>
              ELSE /\ loc' = [ loc EXCEPT !.execError = "timeout" ]
                   /\ pc' = "disarm"
                   /\ UNCHANGED res
       ELSE /\ Raise("TimeoutError")
            /\ UNCHANGED loc
    /\ spin' = 0
    /\ UNCHANGED <<inp, handler, files, foreign, tmpFiles, worker, orphans, ncalls, platform>>
    /\ UNCHANGED graphVars

\* finally: signal.alarm(0)
Disarm ==
    /\ pc = "disarm"
    /\ alarm' = FALSE
    /\ pc' = "restore"
    /\ UNCHANGED <<inp, loc, res, handler, files, foreign, tmpFiles, worker, orphans, ncalls,
                 spin, platform>>
    /\ UNCHANGED graphVars

\* finally: signal.signal(signal.SIGALRM, old_handler); an error that no
\* except clause took goes on up to the caller.
RestoredHandler(old) == old

Restore ==
    /\ pc = "restore"
    /\ handler' = RestoredHandler(loc.oldHandler)
    /\ IF loc.propagating # "none"
       THEN Raise(loc.propagating)
       ELSE pc' = "post" /\ UNCHANGED res
    /\ UNCHANGED <<inp, loc, alarm, files, foreign, tmpFiles, worker, orphans, ncalls, spin,
                 platform>>
    /\ UNCHANGED graphVars

\* ------------------------------------ generate_diagram: worker-thread path

\* thread = threading.Thread(target=_run_code, daemon=True); thread.start()
SpawnWorker ==
    /\ pc = "spawn"
    /\ worker' = [ state |-> "running", wrote |-> FALSE, error |-> FALSE ]
    /\ loc' = [ loc EXCEPT !.executed = TRUE ]
    /\ pc' = "join"
    /\ UNCHANGED <<inp, res, handler, alarm, files, foreign, tmpFiles, orphans, ncalls, spin,
                 platform>>
    /\ UNCHANGED graphVars

\* The script running in the worker renders its diagram file.
WorkerWrite ==
    /\ pc = "join"
    /\ worker.state = "running"
    /\ inp.code.writes /\ ~worker.wrote
    /\ files' = files \cup { GeneratedPath }
    /\ worker' = [ worker EXCEPT !.wrote = TRUE ]
    /\ UNCHANGED <<pc, inp, loc, res, handler, alarm, tmpFiles, orphans, ncalls, spin,
                 foreign, platform>>
    /\ UNCHANGED graphVars

\* _run_code: except Exception as e: result_holder['error'] = str(e).
\* TimeoutError is an Exception; SystemExit is not, and ends the thread
\* leaving result_holder empty.
WorkerRecordsError(end) == end \in { "exc", "texc" }

\* The script in the worker ends and the thread with it.
WorkerEnd ==
    /\ pc = "join"
    /\ worker.state = "running"
    /\ Rendered(inp.code, worker.wrote)
    /\ ~Loops(inp.code)
    /\ worker' = [ worker EXCEPT !.state = "finished",
                                 !.error = WorkerRecordsError(inp.code.end) ]
    /\ UNCHANGED <<pc, inp, loc, res, handler, alarm, files, foreign, tmpFiles, orphans,
                 ncalls, spin, platform>>
    /\ UNCHANGED graphVars

\* One more turn of a script that loops forever in the worker.
WorkerSpin ==
    /\ pc = "join"
    /\ worker.state = "running"
    /\ Rendered(inp.code, worker.wrote)
    /\ Loops(inp.code)
    /\ spin' = 1 - spin
    /\ UNCHANGED <<pc, inp, loc, res, handler, alarm, files, foreign, tmpFiles, worker,
                 orphans, ncalls, platform>>
    /\ UNCHANGED graphVars

\* thread.join(timeout=timeout) returns because the thread has ended;
\* is_alive() is false and exec_error comes from result_holder.
JoinReturn ==
    /\ pc = "join"
    /\ worker.state = "finished"
    /\ loc' = [ loc EXCEPT !.execError = IF worker.error THEN "failed" ELSE "none" ]
    /\ pc' = "post"
    /\ UNCHANGED <<inp, res, handler, alarm, files, foreign, tmpFiles, worker, orphans,
                 ncalls, spin, platform>>
    /\ UNCHANGED graphVars

\* thread.join(timeout=timeout) returns because the time is up; the thread
\* is alive, exec_error is the timeout message, and the thread runs on.
JoinTimeout ==
    /\ pc = "join"
    /\ worker.state = "running"
    /\ loc' = [ loc EXCEPT !.execError = "timeout" ]
    /\ orphans' = orphans \cup
          { [ file |-> GeneratedPath, towrite |-> inp.code.writes /\ ~worker.wrote,
              ends |-> ~Loops(inp.code) ] }
    /\ spin' = 0
    /\ worker' = [ worker EXCEPT !.state = "abandoned" ]
    /\ pc' = "post"
    /\ UNCHANGED <<inp, res, handler, alarm, files, foreign, tmpFiles, ncalls, platform>>
    /\ UNCHANGED graphVars

\* An abandoned worker's script renders its diagram file.
OrphanWrite ==
    \E o \in orphans :
        /\ o.towrite
        /\ files' = files \cup { o.file }
        /\ foreign' = foreign \cup { o.file }
        /\ orphans' = (orphans \ {o}) \cup { [ o EXCEPT !.towrite = FALSE ] }
        /\ UNCHANGED <<pc, inp, loc, res, handler, alarm, tmpFiles, worker, ncalls, spin,
                     platform>>
        /\ UNCHANGED graphVars

\* An abandoned worker's script ends, and the thread with it.
OrphanEnd ==
    \E o \in orphans :
        /\ ~o.towrite
        /\ o.ends
        /\ orphans' = orphans \ {o}
        /\ UNCHANGED <<pc, inp, loc, res, handler, alarm, files, foreign, tmpFiles, worker,
                     ncalls, spin, platform>>
        /\ UNCHANGED graphVars

\* ------------------------------------------- generate_diagram: the result

\* if exec_error: return status='error', message=exec_error
CheckExecError ==
    /\ pc = "post"
    /\ IF Truthy(loc.execError)
       THEN Return("error", NoPath, loc.execError)
       ELSE pc' = "exists" /\ UNCHANGED res
    /\ UNCHANGED <<inp, loc, handler, alarm, files, foreign, tmpFiles, worker, orphans,
                 ncalls, spin, platform>>
    /\ UNCHANGED graphVars

\* A faulty variant: the file is taken to be there.
MutExistsAlways(path) == TRUE

\* os.path.exists(generated_path)
PathExists(path) == path \in files

\* if not os.path.exists(generated_path): return status='error'
CheckExists ==
    /\ pc = "exists"
    /\ IF ~PathExists(GeneratedPath)
       THEN Return("error", NoPath, "notgenerated")
       ELSE /\ pc' = IF loc.fmt = svg THEN "inline" ELSE "success"
            /\ UNCHANGED res
    /\ UNCHANGED <<inp, loc, handler, alarm, files, foreign, tmpFiles, worker, orphans,
                 ncalls, spin, platform>>
    /\ UNCHANGED graphVars

\* _inline_svg_image_references(generated_path): an error string when the SVG
\* cannot be read or written back, None otherwise.
InlineSvg ==
    /\ pc = "inline"
    /\ \E inlineOk \in BOOLEAN :
        IF inlineOk
        THEN pc' = "success" /\ UNCHANGED res
        ELSE Return("error", NoPath, "inline")
    /\ UNCHANGED <<inp, loc, handler, alarm, files, foreign, tmpFiles, worker, orphans,
                 ncalls, spin, platform>>
    /\ UNCHANGED graphVars

\* return DiagramGenerateResponse(status='success', path=generated_path, ...)
ReturnSuccess ==
    /\ pc = "success"
    /\ Return("success", GeneratedPath, "ok")
    /\ UNCHANGED <<inp, loc, handler, alarm, files, foreign, tmpFiles, worker, orphans,
                 ncalls, spin, platform>>
    /\ UNCHANGED graphVars

\* ------------------------------------------------------------------------
\* The graph edit engine (server.py)
\* ------------------------------------------------------------------------
\* Strings are token sequences, so that strip() has something to remove;
\* None stands for any value that is not a str.
None == <<"None">>

IsStr(x) == x # None

\* not x.strip()
Blank(x) == Strip(x) = <<>>

\* isinstance(x, str) and x.strip()
StrGiven(x) == IsStr(x) /\ ~Blank(x)

dependsOnKind == <<"dependsOn">>

\* Python's order on the strings of the model.
TokRank(t) ==
    CASE t = " " -> 0 [] t = "a" -> 1 [] t = "b" -> 2 [] t = "c" -> 3 [] OTHER -> 4

RECURSIVE StrLess(_, _)
StrLess(x, y) ==
    IF y = <<>> THEN FALSE
    ELSE IF x = <<>> THEN TRUE
    ELSE IF Head(x) = Head(y) THEN StrLess(Tail(x), Tail(y))
    ELSE TokRank(Head(x)) < TokRank(Head(y))

\* sorted(S) for a set S of strings
RECURSIVE sorted(_)
sorted(S) ==
    IF S = {} THEN <<>>
    ELSE LET m == CHOOSE x \in S : \A y \in S : x = y \/ StrLess(x, y)
         IN  <<m>> \o sorted(S \ {m})

\* The elements of s at the positions in keep, in order, from position i on.
RECURSIVE KeepAt(_, _, _)
KeepAt(s, keep, i) ==
    IF i > Len(s) THEN <<>>
    ELSE (IF i \in keep THEN <<s[i]>> ELSE <<>>) \o KeepAt(s, keep, i + 1)

\* The list s written out element by element.
List(s) == KeepAt(s, DOMAIN s, 1)

Range(s) == { s[i] : i \in 1..Len(s) }

EdgeKey(edge) == <<edge.from, edge.to, edge.kind>>

\* A faulty variant: every source of an edge is reported.
MutUnresolvedAllSources(resources, edges) ==
    sorted({ e.from : e \in Range(edges) })

\* sorted({edge.from for edge in edges if edge.from not in symbols})
UnresolvedDependencies(resources, edges) ==
    sorted({ e.from : e \in Range(edges) } \ { r.symbolicName : r \in Range(resources) })

\* _normalize_graph_model: entries without a usable symbolicName/resourceType
\* (resources) or from/to (edges) are dropped, the rest is stripped, a missing
\* kind becomes dependsOn; status and message default to success and ''.
\* An entry that is not a dict is modelled as one whose fields are None.
_normalize_graph_model(graph_model) ==
    LET okResource(r) == StrGiven(r.symbolicName) /\ StrGiven(r.resourceType)
        okEdge(e) == StrGiven(e.from) /\ StrGiven(e.to)
        keptR == SelectSeq(graph_model.resources, okResource)
        keptE == SelectSeq(graph_model.edges, okEdge)
        resources == List([ i \in 1..Len(keptR) |->
                        [ keptR[i] EXCEPT !.symbolicName = Strip(@),
                                          !.resourceType = Strip(@) ] ])
        edges == List([ i \in 1..Len(keptE) |->
                    [ from |-> Strip(keptE[i].from),
                      to   |-> Strip(keptE[i].to),
                      kind |-> IF StrGiven(keptE[i].kind) THEN Strip(keptE[i].kind)
                               ELSE dependsOnKind ] ])
    IN  [ status    |-> IF graph_model.status # "None" THEN graph_model.status ELSE "success",
          message   |-> IF graph_model.message # "None" THEN graph_model.message ELSE "",
          resources |-> resources,
          edges     |-> edges,
          unresolvedDependencies |-> UnresolvedDependencies(resources, edges) ]

NoSelection ==
    [ componentKind |-> None, symbolicName |-> None,
      from |-> None, to |-> None, edgeKind |-> None ]

\* _normalize_selected_component; NoSelection is Python's None. A payload that
\* is not a dict is modelled as one whose componentKind is None.
_normalize_selected_component(selected_component) ==
    LET kind == IF IsStr(selected_component.componentKind)
                THEN LowerStr(Strip(selected_component.componentKind)) ELSE None
    IN  IF kind = <<"resource">>
        THEN IF StrGiven(selected_component.symbolicName)
             THEN [ NoSelection EXCEPT !.componentKind = kind,
                        !.symbolicName = Strip(selected_component.symbolicName) ]
             ELSE NoSelection
        ELSE IF kind = <<"edge">>
        THEN IF StrGiven(selected_component.from) /\ StrGiven(selected_component.to)
             THEN [ NoSelection EXCEPT !.componentKind = kind,
                        !.from = Strip(selected_component.from),
                        !.to = Strip(selected_component.to),
                        !.edgeKind = IF StrGiven(selected_component.edgeKind)
                                     THEN Strip(selected_component.edgeKind)
                                     ELSE dependsOnKind ]
             ELSE NoSelection
        ELSE NoSelection

\* _sync_resource_dependencies: every dependsOn is emptied, each edge then adds
\* its from to the resource that resources_by_symbol holds for its to (the
\* last one of that name), and every list is stripped, de-duplicated, sorted.
_sync_resource_dependencies(resources, edges) ==
    List([ i \in 1..Len(resources) |->
        LET name == resources[i].symbolicName
            inBySymbol == \A j \in (i + 1)..Len(resources) :
                              resources[j].symbolicName # name
            sources == { e.from : e \in { x \in Range(edges) : x.to = name /\ x.from # <<>> } }
        IN  [ resources[i] EXCEPT !.dependsOn =
                IF inBySymbol THEN sorted({ Strip(d) : d \in sources } \ { <<>> })
                ELSE <<>> ] ])

\* A faulty variant that keeps every edge.
MutDedupeKeepsAll(edges) ==
    edges

\* _dedupe_edges: the first edge of every (from, to, kind) triple, in order.
_dedupe_edges(edges) ==
    KeepAt(edges,
           { i \in 1..Len(edges) :
               \A j \in 1..(i - 1) : EdgeKey(edges[j]) # EdgeKey(edges[i]) },
           1)

NoPayload ==
    [ isDict |-> FALSE, symbolicName |-> None, resourceType |-> None, dependsOn |-> <<>> ]

\* An edit intent with no key set; normalized_intent starts from it.
NoIntent ==
    [ isDict |-> TRUE, action |-> None, symbolicName |-> None, newSymbolicName |-> None,
      resourceType |-> None, resource |-> NoPayload,
      from |-> None, to |-> None, edgeKind |-> None ]

HasName(resources, name) == \E r \in Range(resources) : r.symbolicName = name

\* not x, for x a str or None
Falsy(x) == x = None \/ x = <<>>

\* return normalized_graph, normalized_intent, '<message>'
Rejected(normalized_graph, normalized_intent, message) ==
    [ graph |-> normalized_graph, intent |-> normalized_intent, error |-> message ]

\* The tail of _apply_graph_edit_intent: edges are de-duplicated, dependsOn and
\* unresolvedDependencies are derived again, status is success. The message
\* names the action; the name is left out here.
Accepted(action, resources, edges, normalized_intent) ==
    LET deduped == _dedupe_edges(edges)
        synced == _sync_resource_dependencies(resources, deduped)
    IN  [ graph |-> [ status    |-> "success",
                      message   |-> "Applied edit action",
                      resources |-> synced,
                      edges     |-> deduped,
                      unresolvedDependencies |-> UnresolvedDependencies(synced, deduped) ],
          intent |-> normalized_intent,
          error |-> "none" ]

\* A faulty variant: a resource is added whatever names the graph has.
MutAddResourceAnyName(normalized_graph, edit_intent, normalized_intent) ==
    LET payload == edit_intent.resource
        resources == normalized_graph.resources
        symbol == Strip(payload.symbolicName)
        type == Strip(payload.resourceType)
        stripped == List([ i \in 1..Len(payload.dependsOn) |-> Strip(payload.dependsOn[i]) ])
        depends_on_values ==
            KeepAt(stripped,
                   { i \in 1..Len(stripped) :
                       stripped[i] # <<>> /\ \A j \in 1..(i - 1) : stripped[j] # stripped[i] },
                   1)
    IN  IF ~payload.isDict
        THEN Rejected(normalized_graph, normalized_intent, "resource is required")
        ELSE IF ~StrGiven(payload.symbolicName)
        THEN Rejected(normalized_graph, normalized_intent, "resource.symbolicName is required")
        ELSE IF ~StrGiven(payload.resourceType)
        THEN Rejected(normalized_graph, normalized_intent, "resource.resourceType is required")
        ELSE Accepted(normalized_intent.action,
                 Append(resources,
                        [ symbolicName |-> symbol, resourceType |-> type, dependsOn |-> <<>> ]),
                 normalized_graph.edges \o
                     List([ i \in 1..Len(depends_on_values) |->
                         [ from |-> depends_on_values[i], to |-> symbol,
                           kind |-> dependsOnKind ] ]),
                 [ normalized_intent EXCEPT !.resource =
                     [ isDict |-> TRUE, symbolicName |-> symbol, resourceType |-> type,
                       dependsOn |-> depends_on_values ] ])

\* action == 'add_resource'
ApplyAddResource(normalized_graph, edit_intent, normalized_intent) ==
    LET payload == edit_intent.resource
        resources == normalized_graph.resources
        symbol == Strip(payload.symbolicName)
        type == Strip(payload.resourceType)
        stripped == List([ i \in 1..Len(payload.dependsOn) |-> Strip(payload.dependsOn[i]) ])
        depends_on_values ==
            KeepAt(stripped,
                   { i \in 1..Len(stripped) :
                       stripped[i] # <<>> /\ \A j \in 1..(i - 1) : stripped[j] # stripped[i] },
                   1)
    IN  IF ~payload.isDict
        THEN Rejected(normalized_graph, normalized_intent, "resource is required")
        ELSE IF ~StrGiven(payload.symbolicName)
        THEN Rejected(normalized_graph, normalized_intent, "resource.symbolicName is required")
        ELSE IF ~StrGiven(payload.resourceType)
        THEN Rejected(normalized_graph, normalized_intent, "resource.resourceType is required")
        ELSE IF HasName(resources, symbol)
        THEN Rejected(normalized_graph, normalized_intent, "already exists")
        ELSE Accepted(normalized_intent.action,
                 Append(resources,
                        [ symbolicName |-> symbol, resourceType |-> type, dependsOn |-> <<>> ]),
                 normalized_graph.edges \o
                     List([ i \in 1..Len(depends_on_values) |->
                         [ from |-> depends_on_values[i], to |-> symbol,
                           kind |-> dependsOnKind ] ]),
                 [ normalized_intent EXCEPT !.resource =
                     [ isDict |-> TRUE, symbolicName |-> symbol, resourceType |-> type,
                       dependsOn |-> depends_on_values ] ])

\* A faulty variant: the resource goes and its edges stay.
MutRemoveKeepsEdges(normalized_graph, symbolic_name, normalized_intent) ==
    IF Falsy(symbolic_name) \/ ~HasName(normalized_graph.resources, symbolic_name)
    THEN Rejected(normalized_graph, normalized_intent, "not found")
    ELSE Accepted(normalized_intent.action,
             SelectSeq(normalized_graph.resources, LAMBDA r : r.symbolicName # symbolic_name),
             normalized_graph.edges,
             [ normalized_intent EXCEPT !.symbolicName = symbolic_name ])

\* action == 'remove_resource'
ApplyRemoveResource(normalized_graph, symbolic_name, normalized_intent) ==
    LET keepResource(r) == r.symbolicName # symbolic_name
        keepEdge(e) == e.from # symbolic_name /\ e.to # symbolic_name
    IN  IF Falsy(symbolic_name)
        THEN Rejected(normalized_graph, normalized_intent, "symbolicName is required")
        ELSE IF ~HasName(normalized_graph.resources, symbolic_name)
        THEN Rejected(normalized_graph, normalized_intent, "not found")
        ELSE Accepted(normalized_intent.action,
                 SelectSeq(normalized_graph.resources, keepResource),
                 SelectSeq(normalized_graph.edges, keepEdge),
                 [ normalized_intent EXCEPT !.symbolicName = symbolic_name ])

\* action == 'set_resource_type': the first resource of that name is changed
ApplySetResourceType(normalized_graph, edit_intent, symbolic_name, normalized_intent) ==
    LET resources == normalized_graph.resources
        type == Strip(edit_intent.resourceType)
        target == CHOOSE i \in 1..Len(resources) :
                      /\ resources[i].symbolicName = symbolic_name
                      /\ \A j \in 1..(i - 1) : resources[j].symbolicName # symbolic_name
    IN  IF Falsy(symbolic_name)
        THEN Rejected(normalized_graph, normalized_intent, "symbolicName is required")
        ELSE IF ~StrGiven(edit_intent.resourceType)
        THEN Rejected(normalized_graph, normalized_intent, "resourceType is required")
        ELSE IF ~HasName(resources, symbolic_name)
        THEN Rejected(normalized_graph, normalized_intent, "not found")
        ELSE Accepted(normalized_intent.action,
                 [ resources EXCEPT ![target].resourceType = type ],
                 normalized_graph.edges,
                 [ normalized_intent EXCEPT !.symbolicName = symbolic_name,
                                            !.resourceType = type ])

\* A faulty variant: the resource is renamed and the edges that touch it are
\* dropped.
MutRenameDropsEdges(normalized_graph, edit_intent, symbolic_name, normalized_intent) ==
    LET resources == normalized_graph.resources
        new_symbolic_name == Strip(edit_intent.newSymbolicName)
    IN  IF Falsy(symbolic_name) \/ ~StrGiven(edit_intent.newSymbolicName)
           \/ ~HasName(resources, symbolic_name)
           \/ (new_symbolic_name # symbolic_name /\ HasName(resources, new_symbolic_name))
        THEN Rejected(normalized_graph, normalized_intent, "rejected")
        ELSE Accepted(normalized_intent.action,
                 List([ i \in 1..Len(resources) |->
                     [ resources[i] EXCEPT !.symbolicName =
                         IF @ = symbolic_name THEN new_symbolic_name ELSE @ ] ]),
                 SelectSeq(normalized_graph.edges,
                           LAMBDA e : e.from # symbolic_name /\ e.to # symbolic_name),
                 normalized_intent)

\* A faulty variant: the resource is renamed and the edges keep the old name.
MutRenameLeavesEdges(normalized_graph, edit_intent, symbolic_name, normalized_intent) ==
    LET resources == normalized_graph.resources
        new_symbolic_name == Strip(edit_intent.newSymbolicName)
    IN  IF Falsy(symbolic_name) \/ ~StrGiven(edit_intent.newSymbolicName)
           \/ ~HasName(resources, symbolic_name)
           \/ (new_symbolic_name # symbolic_name /\ HasName(resources, new_symbolic_name))
        THEN Rejected(normalized_graph, normalized_intent, "rejected")
        ELSE Accepted(normalized_intent.action,
                 List([ i \in 1..Len(resources) |->
                     [ resources[i] EXCEPT !.symbolicName =
                         IF @ = symbolic_name THEN new_symbolic_name ELSE @ ] ]),
                 normalized_graph.edges,
                 normalized_intent)

\* action == 'rename_resource'
ApplyRenameResource(normalized_graph, edit_intent, symbolic_name, normalized_intent) ==
    LET resources == normalized_graph.resources
        edges == normalized_graph.edges
        new_symbolic_name == Strip(edit_intent.newSymbolicName)
        rename(n) == IF n = symbolic_name THEN new_symbolic_name ELSE n
    IN  IF Falsy(symbolic_name)
        THEN Rejected(normalized_graph, normalized_intent, "symbolicName is required")
        ELSE IF ~StrGiven(edit_intent.newSymbolicName)
        THEN Rejected(normalized_graph, normalized_intent, "newSymbolicName is required")
        ELSE IF new_symbolic_name # symbolic_name /\ HasName(resources, new_symbolic_name)
        THEN Rejected(normalized_graph, normalized_intent, "already exists")
        ELSE IF ~HasName(resources, symbolic_name)
        THEN Rejected(normalized_graph, normalized_intent, "not found")
        ELSE Accepted(normalized_intent.action,
                 List([ i \in 1..Len(resources) |->
                     [ resources[i] EXCEPT !.symbolicName = rename(@) ] ]),
                 List([ i \in 1..Len(edges) |->
                     [ edges[i] EXCEPT !.from = rename(@), !.to = rename(@) ] ]),
                 [ normalized_intent EXCEPT !.symbolicName = symbolic_name,
                                            !.newSymbolicName = new_symbolic_name ])

\* A faulty variant: add_dependency of an edge that is there takes it away.
MutAddDependencyToggles(normalized_graph, edit_intent, normalized_selection, symbolic_name, normalized_intent) ==
    LET edges == normalized_graph.edges
        edgeSelected == normalized_selection.componentKind = <<"edge">>
        edge_from0 == IF StrGiven(edit_intent.from) THEN edit_intent.from
                      ELSE IF edgeSelected THEN normalized_selection.from ELSE None
        edge_to0 == IF StrGiven(edit_intent.to) THEN edit_intent.to
                    ELSE IF edgeSelected THEN normalized_selection.to ELSE symbolic_name
        edge_from == Strip(edge_from0)
        edge_to == Strip(edge_to0)
        edge_kind == IF StrGiven(edit_intent.edgeKind) THEN Strip(edit_intent.edgeKind)
                     ELSE dependsOnKind
        edge_key == <<edge_from, edge_to, edge_kind>>
        intent == [ normalized_intent EXCEPT !.from = edge_from, !.to = edge_to,
                                             !.edgeKind = edge_kind ]
        otherEdge(e) == EdgeKey(e) # edge_key
    IN  IF ~StrGiven(edge_from0)
        THEN Rejected(normalized_graph, normalized_intent, "from is required")
        ELSE IF ~StrGiven(edge_to0)
        THEN Rejected(normalized_graph, normalized_intent, "to is required")
        ELSE IF normalized_intent.action = <<"add_dependency">>
        THEN Accepted(normalized_intent.action, normalized_graph.resources,
                 IF \E e \in Range(edges) : EdgeKey(e) = edge_key
                 THEN SelectSeq(edges, otherEdge)
                 ELSE Append(edges, [ from |-> edge_from, to |-> edge_to, kind |-> edge_kind ]),
                 intent)
        ELSE Accepted(normalized_intent.action, normalized_graph.resources,
                 SelectSeq(edges, otherEdge), intent)

\* action in {'add_dependency', 'remove_dependency'}: from and to come from the
\* intent, else from a selected edge, and to falls back on symbolic_name; the
\* kind comes from the intent alone.
ApplyDependency(normalized_graph, edit_intent, normalized_selection, symbolic_name, normalized_intent) ==
    LET edges == normalized_graph.edges
        edgeSelected == normalized_selection.componentKind = <<"edge">>
        edge_from0 == IF StrGiven(edit_intent.from) THEN edit_intent.from
                      ELSE IF edgeSelected THEN normalized_selection.from ELSE None
        edge_to0 == IF StrGiven(edit_intent.to) THEN edit_intent.to
                    ELSE IF edgeSelected THEN normalized_selection.to ELSE symbolic_name
        edge_from == Strip(edge_from0)
        edge_to == Strip(edge_to0)
        edge_kind == IF StrGiven(edit_intent.edgeKind) THEN Strip(edit_intent.edgeKind)
                     ELSE dependsOnKind
        edge_key == <<edge_from, edge_to, edge_kind>>
        intent == [ normalized_intent EXCEPT !.from = edge_from, !.to = edge_to,
                                             !.edgeKind = edge_kind ]
        otherEdge(e) == EdgeKey(e) # edge_key
    IN  IF ~StrGiven(edge_from0)
        THEN Rejected(normalized_graph, normalized_intent, "from is required")
        ELSE IF ~StrGiven(edge_to0)
        THEN Rejected(normalized_graph, normalized_intent, "to is required")
        ELSE IF normalized_intent.action = <<"add_dependency">>
        THEN Accepted(normalized_intent.action, normalized_graph.resources,
                 IF \E e \in Range(edges) : EdgeKey(e) = edge_key THEN edges
                 ELSE Append(edges, [ from |-> edge_from, to |-> edge_to, kind |-> edge_kind ]),
                 intent)
        ELSE Accepted(normalized_intent.action, normalized_graph.resources,
                 SelectSeq(edges, otherEdge), intent)

\* A faulty variant: a graph of any status is edited.
MutAnyStatusAllowsEdit(normalized_graph) == TRUE

\* normalized_graph.get('status') == 'success'
StatusAllowsEdit(normalized_graph) ==
    normalized_graph.status = "success"

\* _apply_graph_edit_intent: (graph, normalized intent, error message); the
\* error is "none" for Python's None.
_apply_graph_edit_intent(graph_model, edit_intent, selected_component) ==
    LET normalized_graph == _normalize_graph_model(graph_model)
        action == LowerStr(Strip(edit_intent.action))
        normalized_intent == [ NoIntent EXCEPT !.action = action ]
        normalized_selection == _normalize_selected_component(selected_component)
        symbolic_name0 ==
            IF StrGiven(edit_intent.symbolicName) THEN edit_intent.symbolicName
            ELSE IF normalized_selection.componentKind = <<"resource">>
                 THEN normalized_selection.symbolicName ELSE None
        symbolic_name == IF IsStr(symbolic_name0) THEN Strip(symbolic_name0) ELSE None
    IN  IF ~StatusAllowsEdit(normalized_graph)
        THEN Rejected(normalized_graph, NoIntent, "graph_model.status must be success")
        ELSE IF ~edit_intent.isDict
        THEN Rejected(normalized_graph, NoIntent, "edit_intent must be an object")
        ELSE IF ~StrGiven(edit_intent.action)
        THEN Rejected(normalized_graph, NoIntent, "action is required")
        ELSE CASE action = <<"add_resource">> ->
                    ApplyAddResource(normalized_graph, edit_intent, normalized_intent)
               [] action = <<"remove_resource">> ->
                    ApplyRemoveResource(normalized_graph, symbolic_name, normalized_intent)
               [] action = <<"set_resource_type">> ->
                    ApplySetResourceType(normalized_graph, edit_intent, symbolic_name,
                                         normalized_intent)
               [] action = <<"rename_resource">> ->
                    ApplyRenameResource(normalized_graph, edit_intent, symbolic_name,
                                        normalized_intent)
               [] action \in { <<"add_dependency">>, <<"remove_dependency">> } ->
                    ApplyDependency(normalized_graph, edit_intent, normalized_selection,
                                    symbolic_name, normalized_intent)
               [] OTHER ->
                    Rejected(normalized_graph, normalized_intent, "unsupported action")

\* ------------------------------------------------------------------------
\* The Bicep parser (bicep_tools.py)
\* ------------------------------------------------------------------------
\* A template is a sequence of lines. Of a line the parser sees: whether
\* _RESOURCE_DECL_RE matches it and then the symbol and the type it declares,
\* how many '{' and '}' it holds, and the identifiers inside the
\* dependsOn: [ ... ] array it holds (none when it holds no array).
Line(decl, symbol, type, opens, closes, deps) ==
    [ decl |-> decl, symbol |-> symbol, type |-> type,
      opens |-> opens, closes |-> closes, deps |-> deps ]

\* The index after the last line of a block, whose lines up to i - 1 have left
\* brace_depth open: lines are taken while brace_depth > 0.
RECURSIVE BlockEnd(_, _, _)
BlockEnd(lines, i, brace_depth) ==
    IF i <= Len(lines) /\ brace_depth > 0
    THEN BlockEnd(lines, i + 1, brace_depth + lines[i].opens - lines[i].closes)
    ELSE i

\* _extract_resource_blocks: one block for every declaration line that is not
\* inside an earlier block, made of that line and the lines after it up to the
\* closing of its braces.
RECURSIVE _extract_resource_blocks(_, _)
_extract_resource_blocks(lines, idx) ==
    IF idx > Len(lines) THEN <<>>
    ELSE IF ~lines[idx].decl THEN _extract_resource_blocks(lines, idx + 1)
    ELSE LET end == BlockEnd(lines, idx + 1, lines[idx].opens - lines[idx].closes)
         IN  << [ symbolicName |-> lines[idx].symbol,
                  resourceType |-> lines[idx].type,
                  blockText |-> SubSeq(lines, idx, end - 1) ] >>
             \o _extract_resource_blocks(lines, end)

\* The identifiers of the dependsOn arrays of a block, in order.
RECURSIVE DependsOnTokens(_)
DependsOnTokens(blockText) ==
    IF blockText = <<>> THEN <<>>
    ELSE Head(blockText).deps \o DependsOnTokens(Tail(blockText))

\* The tokens other than the resource's own name, each once, first seen first.
DependsOnOf(block) ==
    LET tokens == DependsOnTokens(block.blockText)
    IN  KeepAt(tokens,
               { i \in 1..Len(tokens) :
                   /\ tokens[i] # block.symbolicName
                   /\ \A j \in 1..(i - 1) : tokens[j] # tokens[i] },
               1)

RECURSIVE ParsedEdges(_)
ParsedEdges(blocks) ==
    IF blocks = <<>> THEN <<>>
    ELSE LET block == Head(blocks)
             depends_on == DependsOnOf(block)
         IN  List([ i \in 1..Len(depends_on) |->
                      [ from |-> depends_on[i], to |-> block.symbolicName,
                        kind |-> dependsOnKind ] ])
             \o ParsedEdges(Tail(blocks))

ErrorGraph(message) ==
    [ status |-> "error", message |-> message, resources |-> <<>>, edges |-> <<>>,
      unresolvedDependencies |-> <<>> ]

\* parse_bicep_graph. The line number kept with each resource and the counts
\* written into the message are left out.
parse_bicep_graph(bicep_code) ==
    LET blocks == _extract_resource_blocks(bicep_code, 1)
        resources == List([ i \in 1..Len(blocks) |->
                              [ symbolicName |-> blocks[i].symbolicName,
                                resourceType |-> blocks[i].resourceType,
                                dependsOn |-> DependsOnOf(blocks[i]) ] ])
        edges == ParsedEdges(blocks)
    IN  IF bicep_code = <<>> THEN ErrorGraph("No Bicep code provided.")
        ELSE IF blocks = <<>>
        THEN ErrorGraph("No Bicep resource declarations were found.")
        ELSE [ status |-> "success", message |-> "Parsed",
               resources |-> resources, edges |-> edges,
               unresolvedDependencies |-> UnresolvedDependencies(resources, edges) ]

\* -------------------------------------------------- graph edit inputs
nameA == <<"a">>
nameB == <<"b">>
nameC == <<"c">>
typeVm == <<"vm">>
typeDb == <<"db">>
usesKind == <<"uses">>

EmptyGraph ==
    [ status |-> "success", message |-> "", resources |-> <<>>, edges |-> <<>>,
      unresolvedDependencies |-> <<>> ]

RawResource(name, type, deps) ==
    [ symbolicName |-> name, resourceType |-> type, dependsOn |-> deps ]

RawEdge(source, target, kind) == [ from |-> source, to |-> target, kind |-> kind ]

\* Graph payloads a host may send: a well-formed graph; one with padded names
\* and the same edge twice; one whose status is error; one with a resource
\* name twice, malformed entries, an edge from an undeclared name and no usable
\* status; the empty graph.
RawGraphs ==
    { [ EmptyGraph EXCEPT
          !.resources = << RawResource(nameA, typeVm, <<>>),
                           RawResource(nameB, typeDb, <<nameA>>) >>,
          !.edges = << RawEdge(nameA, nameB, dependsOnKind) >> ],
      [ EmptyGraph EXCEPT
          !.resources = << RawResource(<<" ", "a">>, typeVm, <<>>),
                           RawResource(nameB, <<"db", " ">>, <<nameC>>) >>,
          !.edges = << RawEdge(nameA, nameB, None),
                       RawEdge(<<" ", "a">>, <<"b", " ">>, dependsOnKind) >> ],
      [ EmptyGraph EXCEPT
          !.status = "error", !.message = "parse failed",
          !.resources = << RawResource(nameA, typeVm, <<>>) >>,
          !.edges = << RawEdge(nameA, nameA, dependsOnKind),
                       RawEdge(nameA, nameA, dependsOnKind) >> ],
      [ EmptyGraph EXCEPT
          !.status = "None", !.message = "None",
          !.resources = << RawResource(nameA, typeVm, <<>>),
                           RawResource(None, typeVm, <<>>),
                           RawResource(nameA, typeDb, <<>>) >>,
          !.edges = << RawEdge(nameC, nameA, usesKind),
                       RawEdge(None, nameA, dependsOnKind) >> ],
      EmptyGraph }

AddResourceIntent(name, type, deps) ==
    [ NoIntent EXCEPT !.action = <<"add_resource">>,
        !.resource = [ isDict |-> TRUE, symbolicName |-> name, resourceType |-> type,
                       dependsOn |-> deps ] ]

EditIntents ==
    { [ NoIntent EXCEPT !.isDict = FALSE ],
      NoIntent,
      [ NoIntent EXCEPT !.action = <<"explode">> ],
      [ NoIntent EXCEPT !.action = <<"add_resource">> ],
      AddResourceIntent(nameA, typeDb, <<>>),
      AddResourceIntent(<<" ", "b">>, typeDb, << nameA, <<"a", " ">>, <<" ">>, nameC >>),
      AddResourceIntent(nameB, None, <<>>),
      AddResourceIntent(<<" ">>, typeVm, <<>>),
      [ NoIntent EXCEPT !.action = <<"remove_resource">>, !.symbolicName = nameA ],
      [ NoIntent EXCEPT !.action = <<" ", "REMOVE_RESOURCE">>, !.symbolicName = <<"b", " ">> ],
      [ NoIntent EXCEPT !.action = <<"remove_resource">> ],
      [ NoIntent EXCEPT !.action = <<"set_resource_type">>, !.symbolicName = nameA,
                        !.resourceType = <<" ", "db">> ],
      [ NoIntent EXCEPT !.action = <<"set_resource_type">>, !.symbolicName = nameB ],
      [ NoIntent EXCEPT !.action = <<"set_resource_type">>, !.resourceType = typeVm ],
      [ NoIntent EXCEPT !.action = <<"rename_resource">>, !.symbolicName = nameA,
                        !.newSymbolicName = nameB ],
      [ NoIntent EXCEPT !.action = <<"rename_resource">>, !.symbolicName = nameB,
                        !.newSymbolicName = <<"a", " ">> ],
      [ NoIntent EXCEPT !.action = <<"rename_resource">>, !.symbolicName = nameA,
                        !.newSymbolicName = nameA ],
      [ NoIntent EXCEPT !.action = <<"rename_resource">>, !.symbolicName = nameA ],
      [ NoIntent EXCEPT !.action = <<"rename_resource">>, !.newSymbolicName = nameA ],
      [ NoIntent EXCEPT !.action = <<"add_dependency">>, !.from = nameA, !.to = nameB ],
      [ NoIntent EXCEPT !.action = <<"add_dependency">>, !.from = <<" ", "b">>, !.to = nameA,
                        !.edgeKind = usesKind ],
      [ NoIntent EXCEPT !.action = <<"add_dependency">>, !.from = nameC ],
      [ NoIntent EXCEPT !.action = <<"add_dependency">> ],
      [ NoIntent EXCEPT !.action = <<"remove_dependency">>, !.from = nameA, !.to = nameB ],
      [ NoIntent EXCEPT !.action = <<"remove_dependency">>, !.edgeKind = usesKind ] }

\* selected_component payloads: none, a resource, an edge of kind uses.
SelectedComponents ==
    { NoSelection,
      [ NoSelection EXCEPT !.componentKind = <<"resource">>, !.symbolicName = <<" ", "b">> ],
      [ NoSelection EXCEPT !.componentKind = <<"edge">>, !.from = nameB, !.to = <<"a", " ">>,
                           !.edgeKind = usesKind ] }

NoResponse == [ status |-> "none" ]

\* Templates a host may send: no text; text without a declaration; a resource
\* whose dependsOn names another resource, itself, the other again and an
\* undeclared name, followed by a one-line resource; the same symbol declared
\* twice, with the same dependsOn; two resources, the second depending on the
\* first; a declaration nested in the block of another resource, with a
\* dependsOn array of its own.
TextLine == Line(FALSE, None, None, 0, 0, <<>>)
CloseLine == Line(FALSE, None, None, 0, 1, <<>>)
DeclLine(symbol, type, opens, closes, deps) == Line(TRUE, symbol, type, opens, closes, deps)
DependsOnLine(deps) == Line(FALSE, None, None, 0, 0, deps)

Templates ==
    { <<>>,
      << TextLine, DependsOnLine(<<nameA>>) >>,
      << TextLine,
         DeclLine(nameA, typeVm, 1, 0, <<>>),
         DependsOnLine(<< nameB, nameA, nameB, nameC >>),
         CloseLine,
         DeclLine(nameB, typeDb, 1, 1, <<>>) >>,
      << DeclLine(nameA, typeVm, 1, 1, <<nameB>>),
         DeclLine(nameA, typeDb, 1, 1, <<nameB>>) >>,
      << DeclLine(nameA, typeVm, 1, 0, <<>>),
         TextLine,
         CloseLine,
         DeclLine(nameB, typeDb, 1, 0, <<>>),
         DependsOnLine(<<nameA>>),
         CloseLine >>,
      << DeclLine(nameB, typeVm, 1, 0, <<>>),
         DeclLine(nameA, typeDb, 1, 0, <<>>),
         DependsOnLine(<<nameA>>),
         CloseLine,
         CloseLine,
         DependsOnLine(<<nameC>>) >> }

\* A faulty variant: a rejected edit gives the graph model back as it came in.
MutApplyEditReturnsInput(graph_model, edit_intent, selected_component) ==
    LET applied == _apply_graph_edit_intent(_normalize_graph_model(graph_model), edit_intent,
                       _normalize_selected_component(selected_component))
    IN  [ status |-> IF applied.error # "none" THEN "error" ELSE "success",
          message |-> applied.error,
          selectedComponent |-> _normalize_selected_component(selected_component),
          editIntent |-> applied.intent,
          graphModel |-> IF applied.error # "none" THEN graph_model ELSE applied.graph ]

\* mcp_apply_edit: the graph is normalized, the edit applied to it, and the
\* response carries the new graph, or the normalized input with the error.
mcp_apply_edit(graph_model, edit_intent, selected_component) ==
    LET previous_graph_model == _normalize_graph_model(graph_model)
        normalized_selected == _normalize_selected_component(selected_component)
        applied == _apply_graph_edit_intent(previous_graph_model, edit_intent,
                                            normalized_selected)
    IN  IF applied.error # "none"
        THEN [ status |-> "error", message |-> applied.error,
               selectedComponent |-> normalized_selected, editIntent |-> applied.intent,
               graphModel |-> previous_graph_model ]
        ELSE [ status |-> "success", message |-> "Edit applied.",
               selectedComponent |-> normalized_selected, editIntent |-> applied.intent,
               graphModel |-> applied.graph ]

\* The host sends the graph model it holds with an edit intent, and keeps the
\* graph model of the response.
ApplyEdit ==
    \E edit_intent \in EditIntents, selected_component \in SelectedComponents :
      \E response \in { mcp_apply_edit(graphModel, edit_intent, selected_component) } :
        /\ Len(response.graphModel.edges) <= MaxEdges
        /\ Len(response.graphModel.resources) <= MaxResources
        /\ graphModel' = response.graphModel
        /\ editResponse' = [ status |-> response.status ]
        /\ lastTool' = "mcp_apply_edit"
        /\ UNCHANGED <<genVars, trial>>

\* The host has a template parsed and keeps the graph model of the response.
ParseGraph ==
    \E bicep_code \in Templates :
        /\ graphModel' = parse_bicep_graph(bicep_code)
        /\ editResponse' = NoResponse
        /\ lastTool' = "mcp_preview_bicep_graph"
        /\ UNCHANGED <<genVars, trial>>

\* ------------------------------------------------- objects and references
\* The dicts and lists of a call as Python objects. A reference is a pair
\* <<space, index>>: the caller's objects are in the space "caller", and every
\* object a call creates is in a space of its own. A resource dict holds a
\* reference to its dependsOn list; dict(resource) makes a new dict that holds
\* the same reference.

\* A faulty variant: no copy is made, the dict itself is used.
MutDictAlias(ref, space) == ref

\* dict(resource), dict(edge): a new dict with the same items.
dict_copy(ref, space) == <<space, ref[2]>>

\* The caller's graph model as objects.
CallerHeap(graph_model) ==
    [ dicts |-> [ ref \in { <<"caller", i>> : i \in 1..Len(graph_model.resources) } |->
                    [ symbolicName |-> graph_model.resources[ref[2]].symbolicName,
                      resourceType |-> graph_model.resources[ref[2]].resourceType,
                      dependsOn    |-> ref ] ],
      lists |-> [ ref \in { <<"caller", i>> : i \in 1..Len(graph_model.resources) } |->
                    graph_model.resources[ref[2]].dependsOn ],
      edges |-> [ ref \in { <<"caller", j>> : j \in 1..Len(graph_model.edges) } |->
                    graph_model.edges[ref[2]] ] ]

\* A store after a sequence of writes [ref, value]: the last write to a
\* reference stays.
Written(store, writes) ==
    CHOOSE written \in
        { [ ref \in DOMAIN s \cup { w[n].ref : n \in 1..Len(w) } |->
              IF \E n \in 1..Len(w) : w[n].ref = ref
              THEN w[CHOOSE n \in 1..Len(w) :
                         /\ w[n].ref = ref
                         /\ \A m \in (n + 1)..Len(w) : w[m].ref # ref].value
              ELSE s[ref] ] : s \in { store }, w \in { writes } } : TRUE

\* The objects after mcp_apply_edit, and the references of the resources it
\* returns. _normalize_graph_model (once in mcp_apply_edit, once more in
\* _apply_graph_edit_intent) and the working copy each make dict(resource) and
\* dict(edge) of what they keep and write the stripped fields into the new dict;
\* set_resource_type and rename_resource write into the working dicts;
\* _dedupe_edges builds new edge dicts; _sync_resource_dependencies binds a new
\* list to the dependsOn of every working dict. previous is the graph that
\* mcp_apply_edit normalized, applied what _apply_graph_edit_intent returned.
HeapAfterEdit(graph_model, edit_intent, selected_component) ==
    CHOOSE heap \in {
    LET before == CallerHeap(graph_model)
        okResource(r) == StrGiven(r.symbolicName) /\ StrGiven(r.resourceType)
        okEdge(e) == StrGiven(e.from) /\ StrGiven(e.to)
        \* the positions of the entries that normalization keeps
        KeptPositions(entries, ok(_)) ==
            KeepAt([ i \in 1..Len(entries) |-> i ],
                   { i \in 1..Len(entries) : ok(entries[i]) }, 1)
        keptR == KeptPositions(graph_model.resources, okResource)
        keptE == KeptPositions(graph_model.edges, okEdge)
        accepted == applied.error = "none"
        action == applied.intent.action
        normalized(i) == dict_copy(<<"caller", i>>, "normalized")
        inner(i) == dict_copy(normalized(i), "inner")
        working(i) == dict_copy(inner(i), "working")
        \* the dict of the k-th normalized resource, with the list it shares
        shared(k) == [ symbolicName |-> previous.resources[k].symbolicName,
                       resourceType |-> previous.resources[k].resourceType,
                       dependsOn    |-> <<"caller", keptR[k]>> ]
        copies(kept, at(_), value(_)) ==
            List([ k \in 1..Len(kept) |-> [ ref |-> at(kept[k]), value |-> value(k) ] ])
        previousEdge(k) == previous.edges[k]
        copyWrites(kept, value(_)) ==
            copies(kept, normalized, value) \o copies(kept, inner, value)
                \o copies(kept, working, value)
        \* the position in previous.resources of the m-th returned resource,
        \* 0 for the resource that add_resource appended
        survivors ==
            IF action = <<"remove_resource">>
            THEN KeptPositions(previous.resources,
                               LAMBDA r : r.symbolicName # applied.intent.symbolicName)
            ELSE [ m \in 1..Len(applied.graph.resources) |->
                     IF m <= Len(previous.resources) THEN m ELSE 0 ]
        workingDict(m) ==
            IF survivors[m] = 0 THEN <<"added", 1>> ELSE working(keptR[survivors[m]])
        edited(m) == applied.graph.resources[m]
        \* resource['dependsOn'] = []: a new list is bound
        synced(m) == <<"synced", m>>
        editWrites ==
            IF accepted
            THEN List([ m \in 1..Len(applied.graph.resources) |->
                     [ ref |-> workingDict(m),
                       value |-> [ symbolicName |-> edited(m).symbolicName,
                                   resourceType |-> edited(m).resourceType,
                                   dependsOn    |-> synced(m) ] ] ])
            ELSE <<>>
        listWrites ==
            IF accepted
            THEN List([ m \in 1..Len(applied.graph.resources) |->
                     [ ref |-> synced(m), value |-> edited(m).dependsOn ] ])
            ELSE <<>>
        renamed(n) == IF n = applied.intent.symbolicName
                      THEN applied.intent.newSymbolicName ELSE n
        edgeWrites ==
            IF accepted /\ action = <<"rename_resource">>
            THEN List([ k \in 1..Len(keptE) |->
                     [ ref |-> working(keptE[k]),
                       value |-> [ previous.edges[k] EXCEPT !.from = renamed(@),
                                                            !.to = renamed(@) ] ] ])
            ELSE <<>>
    IN  [ status |-> IF accepted THEN "success" ELSE "error",
          before |-> before,
          after  |-> [ dicts |-> Written(before.dicts, copyWrites(keptR, shared) \o editWrites),
                       lists |-> Written(before.lists, listWrites),
                       edges |-> Written(before.edges,
                                         copyWrites(keptE, previousEdge) \o edgeWrites) ],
          returned |-> IF accepted
                       THEN List([ m \in 1..Len(applied.graph.resources) |-> workingDict(m) ])
                       ELSE List([ k \in 1..Len(keptR) |-> normalized(keptR[k]) ]) ]
    : previous \in { _normalize_graph_model(graph_model) },
      applied \in { _apply_graph_edit_intent(_normalize_graph_model(graph_model), edit_intent,
                        _normalize_selected_component(selected_component)) } } : TRUE

\* ------------------------------------------- answers kept for comparison
NoTrial == [ tool |-> "none" ]

\* Graph models a host may hold: what it made up itself and what the parser
\* gave it.
LawGraphs ==
    RawGraphs \cup { parse_bicep_graph(bicep_code) : bicep_code \in Templates }

\* A faulty variant: the lists are compared by position, one position off.
MutDiffByPosition(graph_model, previous_graph_model) ==
    LET at(s, i) == IF i <= Len(s) THEN <<s[i]>> ELSE <<>>
        changed(new, old) == SelectSeq(new, LAMBDA x : \E i \in 1..Len(new) :
                                 new[i] = x /\ at(old, i + 1) # <<x>>)
    IN  [ addedResources   |-> changed(graph_model.resources, previous_graph_model.resources),
          removedResources |-> changed(previous_graph_model.resources, graph_model.resources),
          addedEdges       |-> changed(graph_model.edges, previous_graph_model.edges),
          removedEdges     |-> changed(previous_graph_model.edges, graph_model.edges) ]

\* _build_graph_diff: the entries of each graph whose key is not a key of the
\* other graph, in the order of their list. A kind that is None stands for an
\* edge without the key kind.
_build_graph_diff(graph_model, previous_graph_model) ==
    LET resourceKey(resource) == <<resource.symbolicName, resource.resourceType>>
        edgeKey(edge) ==
            <<edge.from, edge.to, IF edge.kind = None THEN dependsOnKind ELSE edge.kind>>
        previous_resource_keys == { resourceKey(r) : r \in Range(previous_graph_model.resources) }
        resource_keys == { resourceKey(r) : r \in Range(graph_model.resources) }
        previous_edge_keys == { edgeKey(e) : e \in Range(previous_graph_model.edges) }
        edge_keys == { edgeKey(e) : e \in Range(graph_model.edges) }
    IN  [ addedResources   |-> SelectSeq(graph_model.resources,
                                   LAMBDA r : resourceKey(r) \notin previous_resource_keys),
          removedResources |-> SelectSeq(previous_graph_model.resources,
                                   LAMBDA r : resourceKey(r) \notin resource_keys),
          addedEdges       |-> SelectSeq(graph_model.edges,
                                   LAMBDA e : edgeKey(e) \notin previous_edge_keys),
          removedEdges     |-> SelectSeq(previous_graph_model.edges,
                                   LAMBDA e : edgeKey(e) \notin edge_keys) ]

Names == { nameA, nameB, nameC }

RenameIntent(old, new) ==
    [ NoIntent EXCEPT !.action = <<"rename_resource">>, !.symbolicName = old,
                      !.newSymbolicName = new ]

\* status and graphModel of a response
Outcome(response) == [ status |-> response.status, graphModel |-> response.graphModel ]

\* The host has the graph model it holds edited, once.
EditOnce ==
    /\ trial = NoTrial
    /\ \E edit_intent \in EditIntents, selected_component \in SelectedComponents :
          trial' = [ tool |-> "edit", intent |-> edit_intent, selection |-> selected_component,
                     response |-> mcp_apply_edit(graphModel, edit_intent, selected_component) ]
    /\ UNCHANGED <<genVars, graphModel, editResponse, lastTool>>

\* and has the graph model of the response edited again, in the same way.
EditAgain ==
    /\ trial.tool = "edit"
    /\ trial' = [ tool |-> "twice", intent |-> trial.intent, selection |-> trial.selection,
                  response |-> trial.response,
                  again |-> mcp_apply_edit(trial.response.graphModel, trial.intent,
                                           trial.selection) ]
    /\ UNCHANGED <<genVars, graphModel, editResponse, lastTool>>

\* The host has the graph model it holds edited, and looks at its own objects
\* afterwards.
EditObjects ==
    /\ trial = NoTrial
    /\ \E edit_intent \in EditIntents, selected_component \in SelectedComponents :
          trial' = [ tool |-> "objects", intent |-> edit_intent,
                     heap |-> HeapAfterEdit(graphModel, edit_intent, selected_component) ]
    /\ UNCHANGED <<genVars, graphModel, editResponse, lastTool>>

\* A faulty variant: the kind of the edge is not compared.
MutSelectedEdgeAnyKind(edges, normalized_selection) ==
    LET match == { i \in 1..Len(edges) :
                     /\ edges[i].from = normalized_selection.from
                     /\ edges[i].to = normalized_selection.to }
    IN  IF match = {} THEN <<>> ELSE << edges[CHOOSE i \in match : \A j \in match : i <= j] >>

\* next((edge for edge in edges if from, to and kind are the selection's), None):
\* <<>> is None.
SelectedEdge(edges, normalized_selection) ==
    LET match == { i \in 1..Len(edges) :
                     /\ edges[i].from = normalized_selection.from
                     /\ edges[i].to = normalized_selection.to
                     /\ edges[i].kind = normalized_selection.edgeKind }
    IN  IF match = {} THEN <<>> ELSE << edges[CHOOSE i \in match : \A j \in match : i <= j] >>

\* next((resource for resource in resources if symbolicName is the selection's), None)
SelectedResource(resources, normalized_selection) ==
    LET match == { i \in 1..Len(resources) :
                     resources[i].symbolicName = normalized_selection.symbolicName }
    IN  IF match = {} THEN <<>>
        ELSE << resources[CHOOSE i \in match : \A j \in match : i <= j] >>

\* _resolve_selected_component: the normalized selection, the component found
\* and the error message. A selection intent that is not a dict is modelled by
\* isDict; the selection returned with an error is None (NoSelection).
_resolve_selected_component(graph_model, selection_intent) ==
    LET kind == IF IsStr(selection_intent.componentKind)
                THEN LowerStr(Strip(selection_intent.componentKind)) ELSE None
        failed(message) == [ selection |-> NoSelection, component |-> <<>>, error |-> message ]
        resource == [ NoSelection EXCEPT !.componentKind = <<"resource">>,
                          !.symbolicName = Strip(selection_intent.symbolicName) ]
        edge == [ NoSelection EXCEPT !.componentKind = <<"edge">>,
                      !.from = Strip(selection_intent.from),
                      !.to = Strip(selection_intent.to),
                      !.edgeKind = IF StrGiven(selection_intent.edgeKind)
                                   THEN Strip(selection_intent.edgeKind)
                                   ELSE dependsOnKind ]
    IN  IF ~selection_intent.isDict
        THEN failed("selection_intent must be an object")
        ELSE IF ~IsStr(selection_intent.componentKind)
        THEN failed("componentKind must be resource or edge")
        ELSE IF kind = <<"resource">>
        THEN IF ~StrGiven(selection_intent.symbolicName)
             THEN failed("symbolicName is required")
             ELSE [ selection |-> resource,
                    component |-> SelectedResource(graph_model.resources, resource),
                    error |-> "none" ]
        ELSE IF kind = <<"edge">>
        THEN IF ~StrGiven(selection_intent.from)
             THEN failed("from is required")
             ELSE IF ~StrGiven(selection_intent.to)
             THEN failed("to is required")
             ELSE [ selection |-> edge,
                    component |-> SelectedEdge(graph_model.edges, edge),
                    error |-> "none" ]
        ELSE failed("componentKind must be resource or edge")

\* mcp_select_component: the graph is normalized and the selection resolved in it.
mcp_select_component(graph_model, selection_intent) ==
    LET resolved == _resolve_selected_component(_normalize_graph_model(graph_model),
                                                selection_intent)
    IN  IF resolved.error # "none"
        THEN [ status |-> "error", message |-> resolved.error,
               selectedComponent |-> resolved.selection, component |-> <<>>,
               found |-> FALSE ]
        ELSE [ status |-> "success",
               message |-> IF resolved.component # <<>> THEN "Component selected."
                           ELSE "Component not found.",
               selectedComponent |-> resolved.selection, component |-> resolved.component,
               found |-> resolved.component # <<>> ]

SelectionIntent(kind, name, source, target, edgeKind) ==
    [ isDict |-> TRUE, componentKind |-> kind, symbolicName |-> name,
      from |-> source, to |-> target, edgeKind |-> edgeKind ]

\* selection_intent payloads: not an object; no kind; a kind that is neither
\* resource nor edge; resources by name, padded, in capitals, without a name;
\* edges with a kind, without one, without from, without to.
SelectionIntents ==
    { [ SelectionIntent(None, None, None, None, None) EXCEPT !.isDict = FALSE ],
      SelectionIntent(None, nameA, None, None, None),
      SelectionIntent(<<"group">>, nameA, nameA, nameB, None),
      SelectionIntent(<<"resource">>, nameA, None, None, None),
      SelectionIntent(<<" ", "RESOURCE">>, <<" ", "b">>, None, None, None),
      SelectionIntent(<<"resource">>, nameC, None, None, None),
      SelectionIntent(<<"resource">>, <<" ">>, nameA, nameB, None),
      SelectionIntent(<<"edge">>, None, nameA, nameB, None),
      SelectionIntent(<<"edge">>, None, nameB, <<"a", " ">>, usesKind),
      SelectionIntent(<<"edge">>, None, nameC, nameA, <<" ", "uses">>),
      SelectionIntent(<<"edge">>, None, nameB, nameA, <<" ">>),
      SelectionIntent(<<"edge">>, nameA, None, nameB, None),
      SelectionIntent(<<"edge">>, nameA, nameA, <<" ">>, None) }

\* The host has a component of the graph model it holds selected.
SelectOnce ==
    /\ trial = NoTrial
    /\ \E selection_intent \in SelectionIntents :
          trial' = [ tool |-> "select", intent |-> selection_intent,
                     response |-> mcp_select_component(graphModel, selection_intent) ]
    /\ UNCHANGED <<genVars, graphModel, editResponse, lastTool>>

\* The host has a template parsed.
ParseOnce ==
    /\ trial = NoTrial
    /\ \E bicep_code \in Templates :
          trial' = [ tool |-> "parse", template |-> bicep_code,
                     graph |-> parse_bicep_graph(bicep_code) ]
    /\ UNCHANGED <<genVars, graphModel, editResponse, lastTool>>

\* The host has the graph model it holds compared with an older one.
Diff ==
    /\ trial = NoTrial
    /\ \E previous_graph_model \in LawGraphs :
          trial' = [ tool |-> "diff", previous |-> previous_graph_model,
                     graphDiff |-> _build_graph_diff(graphModel, previous_graph_model) ]
    /\ UNCHANGED <<genVars, graphModel, editResponse, lastTool>>

\* The host has a resource of the graph model it holds renamed,
RenameThere ==
    /\ trial = NoTrial
    /\ \E old \in Names, new \in Names :
          trial' = [ tool |-> "rename", old |-> old, new |-> new,
                     there |-> Outcome(mcp_apply_edit(graphModel, RenameIntent(old, new),
                                                      NoSelection)),
                     back |-> NoResponse ]
    /\ UNCHANGED <<genVars, graphModel, editResponse, lastTool>>

\* and in the graph model of the response has it renamed back.
RenameBack ==
    /\ trial.tool = "rename"
    /\ trial.there.status = "success"
    /\ trial.back = NoResponse
    /\ trial' = [ trial EXCEPT !.back =
                     Outcome(mcp_apply_edit(trial.there.graphModel,
                                            RenameIntent(trial.new, trial.old), NoSelection)) ]
    /\ UNCHANGED <<genVars, graphModel, editResponse, lastTool>>

\* ------------------------------------------------------- specifications

Next ==
    \/ Start \/ ValidateSyntax \/ CsCreateTmp \/ CsWrite \/ CsBandit \/ CsDangerous
    \/ CsFinally \/ ScanGate \/ NormalizeFormat \/ ResolvePath \/ Prepare
    \/ InstallHandler \/ ArmAlarm \/ ExecBegin \/ ExecWrite \/ ExecEnd \/ ExecSpin
    \/ AlarmFire \/ Disarm \/ Restore
    \/ SpawnWorker \/ WorkerWrite \/ WorkerEnd \/ WorkerSpin \/ JoinReturn \/ JoinTimeout
    \/ OrphanWrite \/ OrphanEnd
    \/ CheckExecError \/ CheckExists \/ InlineSvg \/ ReturnSuccess \/ Forget

\* generate_diagram is served; no graph is being edited.
Init ==
    /\ GenInit
    /\ graphModel = EmptyGraph
    /\ editResponse = NoResponse
    /\ lastTool = "none"
    /\ trial = NoTrial

\* The steps of the thread that runs generate_diagram.
MainStep ==
    \/ Start \/ ValidateSyntax \/ CsCreateTmp \/ CsWrite \/ CsBandit \/ CsDangerous
    \/ CsFinally \/ ScanGate \/ NormalizeFormat \/ ResolvePath \/ Prepare
    \/ InstallHandler \/ ArmAlarm \/ ExecBegin \/ ExecWrite \/ ExecEnd \/ ExecSpin
    \/ Disarm \/ Restore \/ SpawnWorker \/ JoinReturn
    \/ CheckExecError \/ CheckExists \/ InlineSvg \/ ReturnSuccess \/ Forget

Spec == Init /\ [][Next]_vars

\* The interpreter keeps running the main thread, the kernel delivers a
\* pending alarm, and a join with a timeout returns when the time is up.
FairSpec ==
    /\ Init /\ [][Next]_vars
    /\ WF_vars(MainStep)
    /\ WF_vars(AlarmFire)
    /\ WF_vars(JoinTimeout)

\* The host edits a graph model; no diagram is being generated.
GraphInit ==
    /\ GenInit
    /\ platform = "Linux"
    /\ graphModel \in RawGraphs
    /\ editResponse = NoResponse
    /\ lastTool = "none"
    /\ trial = NoTrial

GraphNext == ApplyEdit \/ ParseGraph

GraphSpec == GraphInit /\ [][GraphNext]_vars

\* The host holds a graph model and has one tool, or two in a row, answer on it.
LawInit ==
    /\ GenInit
    /\ platform = "Linux"
    /\ graphModel \in LawGraphs
    /\ editResponse = NoResponse
    /\ lastTool = "none"
    /\ trial = NoTrial

LawNext ==
    \/ RenameThere \/ RenameBack \/ Diff \/ EditOnce \/ EditAgain \/ ParseOnce
    \/ EditObjects \/ SelectOnce

LawSpec == LawInit /\ [][LawNext]_vars

\* ------------------------------------------------------------------------
\* Properties of generate_diagram
\* ------------------------------------------------------------------------

InCheckSecurity == pc \in { "cs_write", "cs_bandit", "cs_danger", "cs_finally" }

\* The script of the current call ran and ended by raising.
ScriptRaised ==
    /\ loc.executed
    /\ inp.code.end \in { "exc", "texc", "sysexit" }
    /\ IF platform = "Windows" THEN worker.state = "finished"
       ELSE loc.execError # "timeout" /\ res.msg # "TimeoutError"

\* The call has a result in hand or has handed it over.
Returned == pc = "done" /\ res.outcome = "returned"

\* C1: when the scan reports errors (a dangerous call, an import, a syntax
\* error, a linter finding) generate_diagram never executes the code: it
\* returns status=error with no path, and the call writes no output file.
C1_ScanGateBlocksExecution ==
    /\ (loc.hasErrors /\ pc \notin { "validate", "cs_finally" })
          => /\ ~loc.executed /\ ~loc.wrote /\ worker.state = "none"
             /\ files \subseteq foreign
             /\ pc = "done" => /\ Returned
                               /\ res.status = "error"
                               /\ res.path = NoPath
    /\ inp.code.scan \in { "syntax", "import", "danger" }
          => ~loc.executed /\ ~(Returned /\ res.status = "success")

C1_Witness ==
    /\ Returned
    /\ inp.code.scan = "danger"
    /\ res.status = "error" /\ res.msg = "security"
    /\ ~loc.executed

\* C2: a script still running when the timeout has elapsed (one that loops
\* forever) leads to a return with status=error and a timeout message, on the
\* SIGALRM path and on the worker-thread path.
C2_TimeoutAlwaysEnds ==
    (pc \in { "exec", "join" } /\ Loops(inp.code))
        ~> (Returned /\ res.status = "error" /\ res.msg = "timeout")

\* C3: between calls the process-wide SIGALRM handler is the one that was
\* there before the first call, and no alarm is pending: every exit path
\* after the handler was installed has disarmed the alarm and restored it.
C3_HandlerAlwaysRestored ==
    pc \in { "idle", "done" } => (handler = "orig" /\ ~alarm)

\* C4: the temporary file check_security creates is gone when check_security
\* is over, however it ends.
C4_TempFileAlwaysRemoved ==
    ~InCheckSecurity => tmpFiles = 0

\* C5: an error the script raises while it executes never leaves
\* generate_diagram and never ends in success: the call returns a result
\* with status=error.
C5_ExecutionErrorsCaught ==
    (pc = "done" /\ ScriptRaised)
        => (res.outcome = "returned" /\ res.status = "error")

\* C6: in every result generate_diagram returns, path is set exactly when
\* status=success, and then it is <output path>.<format>, a file that exists.
C6_PathIffSuccess ==
    Returned
        => /\ (res.path # NoPath) <=> (res.status = "success")
           /\ res.path # NoPath => (res.path = GeneratedPath /\ res.path \in files)

C6_Witness ==
    /\ Returned /\ res.status = "success"
    /\ res.path \in files

\* C7: a call whose timeout is outside TimeoutMin..TimeoutMax does not
\* execute the code and ends in a returned error result.
C7_TimeoutBoundEnforced ==
    (pc # "idle" /\ (inp.timeout < TimeoutMin \/ inp.timeout > TimeoutMax))
        => /\ ~loc.executed
           /\ Returned => res.status = "error"

\* What a rejected output format leaves undone.
FormatRejected ==
    /\ ~loc.dirMade /\ ~loc.nsBuilt /\ ~loc.executed
    /\ pc \notin { "resolve", "prepare" }
    /\ pc = "done" => (res.outcome = "returned" => res.status = "error")

C9_NoSharedOutputFile ==
    (pc \in { "exists", "inline", "success" } \/ (Returned /\ res.status = "success"))
        => GeneratedPath \notin foreign

\* ------------------------------------------------------------------------
\* Properties of the graph edit engine
\* ------------------------------------------------------------------------

NoDuplicateEdges(edges) ==
    \A i, j \in 1..Len(edges) : i < j => EdgeKey(edges[i]) # EdgeKey(edges[j])

\* C10 as stated: after any mcp_apply_edit call, accepted or rejected, no two
\* edges of the returned graph share (from, to, kind).
C10_NoDuplicateEdgesAfterAnyEdit ==
    editResponse.status # "none" => NoDuplicateEdges(graphModel.edges)

\* C10 amended: after an accepted mcp_apply_edit call no two edges of the
\* returned graph share (from, to, kind); a rejected call returns the normalized
\* input graph, duplicate edges included.
C10_NoDuplicateEdgesAfterAcceptedEdit ==
    editResponse.status = "success" => NoDuplicateEdges(graphModel.edges)

C10_Witness ==
    /\ editResponse.status = "success"
    /\ Len(graphModel.edges) = MaxEdges
    /\ NoDuplicateEdges(graphModel.edges)

\* sorted(set of the from values of the edges whose to is name)
SourcesOf(name, edges) ==
    sorted({ e.from : e \in { x \in Range(edges) : x.to = name } })

\* C11: in the graph an accepted mcp_apply_edit returns, every
\* resource's dependsOn is the sorted set of the from values of the edges whose
\* to is that resource's symbolicName.
C11_DependsOnDerivedFromEdges ==
    editResponse.status = "success"
        => \A r \in Range(graphModel.resources) :
               r.dependsOn = SourcesOf(r.symbolicName, graphModel.edges)

\* The graph model the host holds was produced by parse_bicep_graph, or by
\* mcp_apply_edit (the edited graph, or the normalized input of a rejected edit).
Produced == lastTool \in { "mcp_preview_bicep_graph", "mcp_apply_edit" }

ListedUnresolved(graph, name) ==
    \E i \in 1..Len(graph.unresolvedDependencies) : graph.unresolvedDependencies[i] = name

\* C12: in every graph model produced by parse_bicep_graph, by
\* normalization or by mcp_apply_edit, the from of an edge is listed in
\* unresolvedDependencies exactly when no resource has that symbolicName, and
\* unresolvedDependencies is strictly ascending (sorted, nothing twice).
C12_UnresolvedDependenciesExact ==
    Produced =>
        /\ \A e \in Range(graphModel.edges) :
               ListedUnresolved(graphModel, e.from)
                   <=> ~\E r \in Range(graphModel.resources) : r.symbolicName = e.from
        /\ \A i, j \in 1..Len(graphModel.unresolvedDependencies) :
               i < j => StrLess(graphModel.unresolvedDependencies[i],
                                graphModel.unresolvedDependencies[j])

\* A produced graph with a resolved and an unresolved edge source.
C12_Witness ==
    /\ Produced
    /\ Len(graphModel.unresolvedDependencies) > 0
    /\ \E e \in Range(graphModel.edges) : ~ListedUnresolved(graphModel, e.from)

UniqueNames(resources) ==
    \A i, j \in 1..Len(resources) :
        resources[i].symbolicName = resources[j].symbolicName => i = j

\* A graph model as the data model describes it: status success, nothing for
\* normalization to drop or strip, unique symbolic names, no edge twice, and
\* every dependsOn the sources of the edges into the resource, each once and
\* never the resource itself.
ValidGraph(g) ==
    /\ g.status = "success"
    /\ _normalize_graph_model(g) = g
    /\ UniqueNames(g.resources)
    /\ NoDuplicateEdges(g.edges)
    /\ \A r \in Range(g.resources) :
          /\ Range(r.dependsOn) = { e.from : e \in { x \in Range(g.edges) : x.to = r.symbolicName } }
          /\ Len(r.dependsOn) = Cardinality(Range(r.dependsOn))
          /\ r.symbolicName \notin Range(r.dependsOn)

\* Same resources and same edges, the order inside dependsOn aside.
SameUpToDependsOnOrder(g, h) ==
    /\ g.edges = h.edges
    /\ Len(g.resources) = Len(h.resources)
    /\ \A i \in 1..Len(g.resources) :
          /\ g.resources[i].symbolicName = h.resources[i].symbolicName
          /\ g.resources[i].resourceType = h.resources[i].resourceType
          /\ Range(g.resources[i].dependsOn) = Range(h.resources[i].dependsOn)

\* A resource trial.old, no resource trial.new, in a valid graph.
RenameCase ==
    /\ trial.tool = "rename"
    /\ ValidGraph(graphModel)
    /\ HasName(graphModel.resources, trial.old)
    /\ ~HasName(graphModel.resources, trial.new)

RenamedBack ==
    /\ trial.there.status = "success"
    /\ trial.back.status = "success"
    /\ SameUpToDependsOnOrder(trial.back.graphModel, graphModel)

Mentions(edges, name) == \E e \in Range(edges) : e.from = name \/ e.to = name

\* C13: for a valid graph G with a resource A and no resource B,
\* rename_resource(A to B) followed by rename_resource(B to A) gives G back, the
\* order inside dependsOn aside.
C13_RenameRoundTrip ==
    (RenameCase /\ trial.back # NoResponse) => RenamedBack

\* C13 as amended: the same, for a graph none of whose edges has B as
\* its from or its to.
C13_RenameRoundTripUnmentioned ==
    (RenameCase /\ ~Mentions(graphModel.edges, trial.new))
        => /\ trial.there.status = "success"
           /\ trial.back # NoResponse => RenamedBack

\* A resource with edges was renamed to an unmentioned name and back.
C13_Witness ==
    /\ RenameCase
    /\ ~Mentions(graphModel.edges, trial.new)
    /\ Mentions(graphModel.edges, trial.old)
    /\ trial.back # NoResponse

\* C14: _build_graph_diff of a graph model and itself has
\* addedResources, removedResources, addedEdges and removedEdges all empty.
C14_DiffWithItselfEmpty ==
    (trial.tool = "diff" /\ trial.previous = graphModel)
        => /\ trial.graphDiff.addedResources = <<>>
           /\ trial.graphDiff.removedResources = <<>>
           /\ trial.graphDiff.addedEdges = <<>>
           /\ trial.graphDiff.removedEdges = <<>>

\* A valid graph with resources and edges was compared with itself.
C14_Witness ==
    /\ trial.tool = "diff"
    /\ trial.previous = graphModel
    /\ ValidGraph(graphModel)
    /\ Len(graphModel.resources) > 1
    /\ Len(graphModel.edges) > 1

\* C15: a rejected mcp_apply_edit, whatever the reason, answers with
\* an error message and with the normalized input graph: nothing of the edit is
\* applied.
C15_RejectedEditChangesNothing ==
    (trial.tool = "edit" /\ trial.response.status = "error")
        => /\ trial.response.message \notin { "none", "" }
           /\ trial.response.graphModel = _normalize_graph_model(graphModel)

\* An add_resource of a name the graph has was rejected, on a graph that
\* normalization changes.
C15_Witness ==
    /\ trial.tool = "edit"
    /\ trial.response.status = "error"
    /\ trial.response.message = "already exists"
    /\ _normalize_graph_model(graphModel) # graphModel

\* The step is an mcp_apply_edit that was rejected and gave back the
\* normalized input.
RejectedUnchanged ==
    /\ editResponse'.status = "error"
    /\ graphModel' = _normalize_graph_model(graphModel)

\* C16: mcp_apply_edit edits only a graph whose status is success; on
\* any other status it answers with an error and changes nothing, and a graph of
\* status error keeps that status through every later mcp_apply_edit.
C16_EditsOnlyOnStatusSuccess ==
    [][ (lastTool' = "mcp_apply_edit" /\ graphModel.status # "success")
            => /\ RejectedUnchanged
               /\ graphModel.status = "error" => graphModel'.status = "error" ]_vars

\* C16 as amended: the same for a status that is a string other than
\* success; a status that is missing or not a string counts as success.
C16_EditsOnlyOnNormalizedStatusSuccess ==
    [][ (lastTool' = "mcp_apply_edit" /\ graphModel.status \notin { "success", "None" })
            => /\ RejectedUnchanged
               /\ graphModel.status = "error" => graphModel'.status = "error" ]_vars

\* An edit of a graph of status error was rejected: the host holds the error
\* graph with its resources still in it.
C16_Witness ==
    /\ lastTool = "mcp_apply_edit"
    /\ editResponse.status = "error"
    /\ graphModel.status = "error"
    /\ graphModel.resources # <<>>

\* C17: in a graph model produced by parse_bicep_graph no two resources
\* have the same symbolicName, whatever the template.
C17_ParsedNamesUnique ==
    lastTool = "mcp_preview_bicep_graph" => UniqueNames(graphModel.resources)

\* C18: in a graph model produced by parse_bicep_graph or by an
\* accepted mcp_apply_edit, after any sequence of edits, no resource's dependsOn
\* holds the resource's own symbolicName.
C18_NoSelfDependency ==
    (\/ lastTool = "mcp_preview_bicep_graph"
     \/ lastTool = "mcp_apply_edit" /\ editResponse.status = "success")
        => \A r \in Range(graphModel.resources) : r.symbolicName \notin Range(r.dependsOn)

\* The field of a dependency edit: the intent's when it is a non-blank string,
\* else the selected edge's.
IntentElseSelection(explicit, selected) ==
    IF StrGiven(explicit) THEN Strip(explicit) ELSE selected

\* An accepted add_dependency or remove_dependency, made with an edge selected.
DependencyEditWithEdgeSelected ==
    /\ trial.tool = "edit"
    /\ trial.response.status = "success"
    /\ trial.response.editIntent.action \in { <<"add_dependency">>, <<"remove_dependency">> }
    /\ trial.response.selectedComponent.componentKind = <<"edge">>

\* C19: add_dependency and remove_dependency take each of from, to and
\* edgeKind from the intent when the field is a non-blank string and else from
\* the selected edge, and operate on that triple: with edgeKind omitted and an
\* edge of kind K selected, on (from, to, K).
C19_DependencyFieldsFromIntentElseSelection ==
    DependencyEditWithEdgeSelected =>
        LET intent == trial.response.editIntent
            selected == trial.response.selectedComponent
            edge == [ from |-> IntentElseSelection(trial.intent.from, selected.from),
                      to   |-> IntentElseSelection(trial.intent.to, selected.to),
                      kind |-> IntentElseSelection(trial.intent.edgeKind, selected.edgeKind) ]
        IN  /\ <<intent.from, intent.to, intent.edgeKind>> = EdgeKey(edge)
            /\ (edge \in Range(trial.response.graphModel.edges))
                   <=> (intent.action = <<"add_dependency">>)

\* The code of the current call has a syntax error or an import statement.
FailsValidation == inp.code.scan \in { "syntax", "import" }

\* scan_python_code has returned to generate_diagram.
ScanReturned == pc = "gate"

\* C20: when validation fails scan_python_code returns at once, with
\* has_errors true, syntax_valid false, no issues, the validation error and the
\* metrics, and check_security is not entered (no temp file, no bandit, no
\* dangerous-function pass); in every other case has_errors is true exactly when
\* there are issues.
C20_ValidationFailureSkipsSecurityCheck ==
    /\ FailsValidation => pc # "cs_create" /\ ~InCheckSecurity
    /\ (ScanReturned /\ FailsValidation)
           => /\ loc.hasErrors
              /\ ~loc.syntaxValid
              /\ loc.issues = {}
              /\ loc.scanError = inp.code.scan
              /\ loc.metrics = count_code_metrics(inp.code)
              /\ ~loc.tmpPath
    /\ (ScanReturned /\ ~FailsValidation) => (loc.hasErrors <=> loc.issues # {})

\* A scan has returned for code with an import statement.
C20_Witness ==
    /\ ScanReturned
    /\ inp.code.scan = "import"

\* C21: whether bandit ran or raised, check_security goes on to the
\* dangerous-function pass, and when it leaves its try block every finding of
\* check_dangerous_functions is in the issue list as a HIGH severity, HIGH
\* confidence issue of type dangerous_function.
C21_LinterFailureKeepsDangerousCheck ==
    /\ (InCheckSecurity /\ loc.banditFailed) => pc \in { "cs_danger", "cs_finally" }
    /\ pc = "cs_finally"
          => \A item \in check_dangerous_functions(inp.code) :
                \E issue \in loc.issues :
                    /\ issue.severity = "HIGH"
                    /\ issue.confidence = "HIGH"
                    /\ issue.issue_type = "dangerous_function"
                    /\ issue.line = item.line
                    /\ issue.issue_text = item.function

\* bandit raised, and the exec call of the code is in the issue list.
C21_Witness ==
    /\ pc = "cs_finally"
    /\ loc.banditFailed
    /\ check_dangerous_functions(inp.code) # {}
    /\ loc.issues # {}

\* The identifiers other than its own name in the dependsOn arrays of a block.
ListedIn(block) == Range(DependsOnTokens(block.blockText)) \ { block.symbolicName }

\* The position at which an identifier is first listed in a block.
FirstSeen(block, d) ==
    CHOOSE i \in 1..Len(DependsOnTokens(block.blockText)) :
        /\ DependsOnTokens(block.blockText)[i] = d
        /\ \A j \in 1..(i - 1) : DependsOnTokens(block.blockText)[j] # d

\* C22: parse_bicep_graph gives exactly one edge (d, r, dependsOn) for
\* each identifier d other than r listed in the dependsOn arrays of resource
\* block r, in first-seen order, and no other edge; two blocks of which the
\* second lists the first give that one edge and no unresolved dependency.
C22_ParsedEdgesExact ==
    (trial.tool = "parse" /\ trial.graph.status = "success") =>
        LET blocks == _extract_resource_blocks(trial.template, 1)
            edges == trial.graph.edges
            edge(d, r) == [ from |-> d, to |-> r, kind |-> dependsOnKind ]
        IN  /\ \A k \in 1..Len(blocks) : \A d \in ListedIn(blocks[k]) :
                   Cardinality({ i \in 1..Len(edges) :
                                   edges[i] = edge(d, blocks[k].symbolicName) }) = 1
            /\ \A e \in Range(edges) : \E k \in 1..Len(blocks) :
                   e.from \in ListedIn(blocks[k]) /\ e = edge(e.from, blocks[k].symbolicName)
            /\ \A k \in 1..Len(blocks) : \A i, j \in 1..Len(edges) :
                   (/\ i < j
                    /\ edges[i].to = blocks[k].symbolicName
                    /\ edges[j].to = blocks[k].symbolicName
                    /\ edges[i].from # edges[j].from)
                       => FirstSeen(blocks[k], edges[i].from) < FirstSeen(blocks[k], edges[j].from)
            /\ (/\ Len(blocks) = 2
                /\ ListedIn(blocks[1]) = {}
                /\ DependsOnTokens(blocks[2].blockText) = << blocks[1].symbolicName >>
                /\ blocks[1].symbolicName # blocks[2].symbolicName)
                   => /\ edges = << edge(blocks[1].symbolicName, blocks[2].symbolicName) >>
                      /\ trial.graph.unresolvedDependencies = <<>>

\* The caller's objects hold after the call what they held before.
CallerObjectsUntouched(heap) ==
    /\ \A ref \in DOMAIN heap.before.dicts : heap.after.dicts[ref] = heap.before.dicts[ref]
    /\ \A ref \in DOMAIN heap.before.lists : heap.after.lists[ref] = heap.before.lists[ref]
    /\ \A ref \in DOMAIN heap.before.edges : heap.after.edges[ref] = heap.before.edges[ref]

\* The resources returned are objects of their own, and so are their lists.
ReturnedObjectsNew(heap) ==
    \A m \in 1..Len(heap.returned) :
        /\ heap.returned[m] \notin DOMAIN heap.before.dicts
        /\ heap.after.dicts[heap.returned[m]].dependsOn \notin DOMAIN heap.before.lists

\* C23: mcp_apply_edit leaves the caller's graph object as it was,
\* its resources, their dependsOn lists and its edges, whether the edit is
\* accepted or rejected, and an accepted edit comes back as new objects.
C23_CallerGraphUntouched ==
    trial.tool = "objects"
        => /\ CallerObjectsUntouched(trial.heap)
           /\ trial.heap.status = "success" => ReturnedObjectsNew(trial.heap)

\* An accepted rename on a graph that normalization strips, whose resources
\* have dependencies.
C23_Witness ==
    /\ trial.tool = "objects"
    /\ trial.heap.status = "success"
    /\ trial.intent.action = <<"rename_resource">>
    /\ _normalize_graph_model(graphModel).resources # graphModel.resources
    /\ \E ref \in DOMAIN trial.heap.before.lists : trial.heap.before.lists[ref] # <<>>

\* The selection intent is an object of kind resource with a name, or of kind
\* edge with a from and a to.
WellFormedSelection(intent) ==
    /\ intent.isDict
    /\ IsStr(intent.componentKind)
    /\ \/ /\ LowerStr(Strip(intent.componentKind)) = <<"resource">>
          /\ StrGiven(intent.symbolicName)
       \/ /\ LowerStr(Strip(intent.componentKind)) = <<"edge">>
          /\ StrGiven(intent.from)
          /\ StrGiven(intent.to)

\* The entities of the normalized graph that a selection names.
Matching(graph, selection) ==
    IF selection.componentKind = <<"resource">>
    THEN { r \in Range(graph.resources) : r.symbolicName = selection.symbolicName }
    ELSE { e \in Range(graph.edges) :
             EdgeKey(e) = <<selection.from, selection.to, selection.edgeKind>> }

\* C24: mcp_select_component answers a well-formed selection of a
\* resource (by name) or an edge (by from, to and edgeKind, dependsOn when
\* omitted) with the normalized selection, no error, and the matching resource
\* or edge when there is one and None when there is none; it answers with an
\* error exactly when the selection intent is malformed.
C24_SelectionResolved ==
    trial.tool = "select" =>
        LET intent == trial.intent
            response == trial.response
            graph == _normalize_graph_model(graphModel)
            selection == response.selectedComponent
        IN  /\ response.status = "error" <=> ~WellFormedSelection(intent)
            /\ WellFormedSelection(intent)
                  => /\ selection.componentKind = LowerStr(Strip(intent.componentKind))
                     /\ selection.componentKind = <<"resource">>
                           => selection.symbolicName = Strip(intent.symbolicName)
                     /\ selection.componentKind = <<"edge">>
                           => /\ selection.from = Strip(intent.from)
                              /\ selection.to = Strip(intent.to)
                              /\ selection.edgeKind = IF StrGiven(intent.edgeKind)
                                                      THEN Strip(intent.edgeKind)
                                                      ELSE dependsOnKind
                     /\ Matching(graph, selection) = {} => response.component = <<>>
                     /\ Matching(graph, selection) # {}
                           => /\ Len(response.component) = 1
                              /\ response.component[1] \in Matching(graph, selection)
                     /\ response.found <=> Matching(graph, selection) # {}

\* An edge selection without edgeKind found the dependsOn edge of the graph.
C24_Witness ==
    /\ trial.tool = "select"
    /\ trial.intent.componentKind = <<"edge">>
    /\ trial.intent.edgeKind = None
    /\ trial.response.found
    /\ trial.response.component[1].kind = dependsOnKind

\* The name an edit is about: the intent's symbolicName when it is a non-blank
\* string, else the selected resource's.
TargetName(intent, selection) ==
    IF StrGiven(intent.symbolicName) THEN Strip(intent.symbolicName)
    ELSE IF _normalize_selected_component(selection).componentKind = <<"resource">>
    THEN _normalize_selected_component(selection).symbolicName
    ELSE None

\* The edit of the trial has the given action.
EditOf(action) ==
    /\ trial.tool = "edit"
    /\ trial.intent.isDict
    /\ IsStr(trial.intent.action)
    /\ LowerStr(Strip(trial.intent.action)) = action

NameAndType(resources) ==
    [ i \in 1..Len(resources) |-> <<resources[i].symbolicName, resources[i].resourceType>> ]

\* C25: remove_resource(X) is rejected when no resource is named X;
\* when accepted, the graph returned has no resource named X and no edge from or
\* to X, and has every other resource and every edge that does not touch X.
C25_RemoveResource ==
    EditOf(<<"remove_resource">>) =>
        LET X == TargetName(trial.intent, trial.selection)
            previous == _normalize_graph_model(graphModel)
            next == trial.response.graphModel
            others == SelectSeq(previous.resources, LAMBDA r : r.symbolicName # X)
        IN  /\ ~HasName(previous.resources, X) => trial.response.status = "error"
            /\ trial.response.status = "success"
                  => /\ ~HasName(next.resources, X)
                     /\ ~Mentions(next.edges, X)
                     /\ NameAndType(next.resources) = NameAndType(others)
                     /\ { EdgeKey(e) : e \in Range(next.edges) }
                            = { EdgeKey(e) : e \in { x \in Range(previous.edges) :
                                                       x.from # X /\ x.to # X } }

\* A resource with edges was removed from a graph with another resource.
C25_Witness ==
    /\ EditOf(<<"remove_resource">>)
    /\ trial.response.status = "success"
    /\ Mentions(_normalize_graph_model(graphModel).edges,
                TargetName(trial.intent, trial.selection))
    /\ trial.response.graphModel.resources # <<>>

\* The new name a rename_resource intent asks for, None when it gives none.
NewName(intent) ==
    IF StrGiven(intent.newSymbolicName) THEN Strip(intent.newSymbolicName) ELSE None

\* C26: rename_resource(old to new) is rejected if no resource is
\* named old, if new is blank, or if new names a different existing resource;
\* when accepted with new different from old, every resource named old is named
\* new and keeps its type, no resource is named old, every edge endpoint old has
\* become new, and the diff against the prior graph lists old under
\* removedResources and new under addedResources.
C26_RenameResource ==
    EditOf(<<"rename_resource">>) =>
        LET old == TargetName(trial.intent, trial.selection)
            new == NewName(trial.intent)
            previous == _normalize_graph_model(graphModel)
            next == trial.response.graphModel
            graph_diff == _build_graph_diff(next, previous)
            renamed(n) == IF n = old THEN new ELSE n
        IN  /\ ( \/ ~HasName(previous.resources, old)
                 \/ new = None
                 \/ (new # old /\ HasName(previous.resources, new)) )
                  => trial.response.status = "error"
            /\ (trial.response.status = "success" /\ new # old)
                  => /\ Len(next.resources) = Len(previous.resources)
                     /\ \A i \in 1..Len(previous.resources) :
                            /\ next.resources[i].symbolicName
                                   = renamed(previous.resources[i].symbolicName)
                            /\ next.resources[i].resourceType
                                   = previous.resources[i].resourceType
                     /\ HasName(next.resources, new)
                     /\ ~HasName(next.resources, old)
                     /\ ~Mentions(next.edges, old)
                     /\ { EdgeKey(e) : e \in Range(next.edges) }
                            = { EdgeKey([ e EXCEPT !.from = renamed(@), !.to = renamed(@) ]) :
                                   e \in Range(previous.edges) }
                     /\ \E r \in Range(graph_diff.removedResources) : r.symbolicName = old
                     /\ \E r \in Range(graph_diff.addedResources) : r.symbolicName = new

\* A resource with edges was given a name no resource had.
C26_Witness ==
    /\ EditOf(<<"rename_resource">>)
    /\ trial.response.status = "success"
    /\ NewName(trial.intent) # TargetName(trial.intent, trial.selection)
    /\ Mentions(_normalize_graph_model(graphModel).edges,
                TargetName(trial.intent, trial.selection))

\* The triple a dependency edit is about, as the code takes it: from and to
\* from the intent, else from a selected edge (to: else the target name), the
\* kind from the intent, else dependsOn.
DependencyTriple(intent, selection) ==
    LET selected == _normalize_selected_component(selection)
        edgeSelected == selected.componentKind = <<"edge">>
    IN  << IntentElseSelection(intent.from, IF edgeSelected THEN selected.from ELSE None),
           IntentElseSelection(intent.to, IF edgeSelected THEN selected.to
                                          ELSE TargetName(intent, selection)),
           IntentElseSelection(intent.edgeKind, dependsOnKind) >>

\* The same dependency edit was applied, and applied again to its result.
DependencyEditTwice(action) ==
    /\ trial.tool = "twice"
    /\ trial.intent.isDict
    /\ IsStr(trial.intent.action)
    /\ LowerStr(Strip(trial.intent.action)) = action

EdgeKeys(edges) == { EdgeKey(e) : e \in Range(edges) }

\* C27: add_dependency and remove_dependency are idempotent: applied
\* twice they give the resources and edges they give applied once;
\* add_dependency of a triple that is there leaves the edge set as it is, and
\* remove_dependency of a triple that is not there succeeds and leaves the edge
\* set as it is.
C27_DependencyEditsIdempotent ==
    \A action \in { <<"add_dependency">>, <<"remove_dependency">> } :
        DependencyEditTwice(action) =>
            LET previous == _normalize_graph_model(graphModel)
                once == trial.response
                twice == trial.again
                triple == DependencyTriple(trial.intent, trial.selection)
                there == triple \in EdgeKeys(previous.edges)
                given == triple[1] # None /\ triple[2] # None
            IN  /\ twice.status = once.status
                /\ twice.graphModel.resources = once.graphModel.resources
                /\ twice.graphModel.edges = once.graphModel.edges
                /\ (action = <<"add_dependency">> /\ there)
                       => EdgeKeys(once.graphModel.edges) = EdgeKeys(previous.edges)
                /\ (action = <<"remove_dependency">> /\ ~there /\ given
                        /\ previous.status = "success")
                       => /\ once.status = "success"
                          /\ EdgeKeys(once.graphModel.edges) = EdgeKeys(previous.edges)

\* An edge the graph had was added, and added again to the result.
C27_Witness ==
    /\ DependencyEditTwice(<<"add_dependency">>)
    /\ trial.response.status = "success"
    /\ trial.again.status = "success"
    /\ DependencyTriple(trial.intent, trial.selection)
           \in EdgeKeys(_normalize_graph_model(graphModel).edges)
    /\ trial.response.graphModel.resources # <<>>

\* The class of an exec_error, as the tail of generate_diagram treats it: the
\* timeout message, another message, or nothing to return for (None, and on
\* `if exec_error:` the empty string too).
ErrorClass(execError) ==
    IF execError = "timeout" THEN "timed out"
    ELSE IF Truthy(execError) THEN "generation failed"
    ELSE "none"

\* What the SIGALRM path makes of a script that ends by itself.
AlarmVerdict(end) ==
    [ error |-> ErrorClass(UnixCatch(end).execError),
      escapes |-> UnixCatch(end).propagating # "none" ]

\* What the worker-thread path makes of a script that ends by itself.
ThreadVerdict(end) ==
    [ error |-> ErrorClass(IF WorkerRecordsError(end) THEN "failed" ELSE "none"),
      escapes |-> FALSE ]

\* The script of the current call has ended by itself and the timeout
\* mechanism in use has set exec_error.
ExecutionOver ==
    \/ pc = "restore" /\ loc.execError # "timeout"
    \/ pc = "post" /\ worker.state = "finished"

\* What the mechanism in use has made of the script.
PathVerdict ==
    [ error |-> ErrorClass(loc.execError), escapes |-> loc.propagating # "none" ]

\* What the other mechanism makes of the same script.
OtherPathVerdict ==
    IF platform # "Windows" THEN ThreadVerdict(inp.code.end) ELSE AlarmVerdict(inp.code.end)

\* C28: the SIGALRM path and the worker-thread path treat the same
\* script behaviour alike: a script that ends by itself (normally or with an
\* error of any kind) leaves the same class of exec_error on both and escapes
\* from neither, and a script that runs past the timeout stays under the
\* timeout on both.
C28_TimeoutPathsEquivalent ==
    /\ ExecutionOver => PathVerdict = OtherPathVerdict
    /\ (pc = "exec" /\ Loops(inp.code) /\ ArmsAlarm(inp.timeout)) => alarm
    /\ (pc = "post" /\ worker.state = "abandoned") => ErrorClass(loc.execError) = "timed out"

\* The execution the current call performed has rendered the output file, in
\* the main thread or in the call's worker.
WroteOutputFile == loc.wrote \/ (worker.state # "none" /\ worker.wrote)

\* C29: generate_diagram returns status=success only if the execution
\* this very call performed wrote the output file; a file that an earlier call
\* left at the path, or that an abandoned worker wrote there, never makes a call
\* succeed whose own execution wrote none.
C29_SuccessOnlyIfThisCallWrote ==
    (Returned /\ res.status = "success") => WroteOutputFile

\* A normalized graph whose resource names are pairwise distinct.
NormalizedUnique(g) ==
    /\ UniqueNames(g.resources)
    /\ _normalize_graph_model(g) = g

\* C30: unique symbolic names are an inductive invariant of the edit
\* engine: mcp_apply_edit, given a normalized graph whose resource names are
\* pairwise distinct, returns, accepting or rejecting, a normalized graph whose
\* resource names are pairwise distinct, so that the next edit starts from such
\* a graph again.
C30_UniqueNamesInductive ==
    [][ (lastTool' = "mcp_apply_edit" /\ NormalizedUnique(graphModel))
            => NormalizedUnique(graphModel') ]_vars

\* An accepted edit has returned a graph of two resources with distinct names.
C30_Witness ==
    /\ lastTool = "mcp_apply_edit"
    /\ editResponse.status = "success"
    /\ Len(graphModel.resources) = 2
    /\ NormalizedUnique(graphModel)

====
